---- MODULE Spec2Model ----
(***************************************************************************)
(* Model of the colour functions of package frostutil (color.go, carried   *)
(* in src/readme.md lines 198-384): UnmultiplyAlphaBytes,                  *)
(* MultiplyAlphaBytes, MultiplyAlphaBytesPreserveColors, UnmultiplyAlpha,  *)
(* ToNRGBA and ToNRGBA_U32.                                                *)
(*                                                                         *)
(* The functions are pure.  The state machine is a caller: it holds one    *)
(* argument (four bytes, or a colour value), calls one function on it and  *)
(* may multiply the straight bytes UnmultiplyAlphaBytes returned back to   *)
(* premultiplied form.                                                     *)
(* A Go run-time panic (integer divide by zero) is an outcome of a call.   *)
(*                                                                         *)
(* The second half models image.go (src/image.go lines 169-340):           *)
(* CopyImageLines on byte buffers (SpecLines), and CopyImage,              *)
(* NewEImageFromImage, NewImageFromEImage and SlowImageCopy on images      *)
(* whose pixel data lives in a heap of buffers (SpecImage).                *)
(***************************************************************************)
EXTENDS Integers, Sequences, FiniteSets, TLC

VARIABLES inp, call1, call2, lines, heap, imgs, log, str,
          hasTestMain, testsQueued, testChans, mainRoutine, gameThread,
          callers, ran

vars == <<inp, call1, call2, lines, heap, imgs, log, str,
          hasTestMain, testsQueued, testChans, mainRoutine, gameThread,
          callers, ran>>

\* The colour caller uses inp, call1 and call2; the callers of image.go
\* (further down) use lines, heap, imgs and log.  Each specification holds
\* the variables of the others at their idle values.
colorVars == <<inp, call1, call2>>
imageVars == <<lines, heap, imgs, log>>

\* The caller of Split and Join (util.go) uses str; the test harness
\* (test.go) uses the remaining variables.
utilVars == <<str>>
harnessVars == <<hasTestMain, testsQueued, testChans, mainRoutine, gameThread,
                 callers, ran>>

UtilIdle == str = <<>>
HarnessIdle ==
    /\ hasTestMain = FALSE /\ testsQueued = 0 /\ testChans = <<>>
    /\ mainRoutine = <<>> /\ gameThread = <<>> /\ callers = <<>> /\ ran = <<>>

----------------------------------------------------------------------------
(* Go integer arithmetic on byte and uint32 values                         *)

Byte == 0 .. 255

\* byte(x): conversion of an integer to uint8 keeps the low eight bits.
ToByte(x) == x % 256

\* x << n.  The integer operands of these functions are bytes and 16-bit
\* values and every intermediate result stays below 2^24, inside both
\* uint32 and the model checker's integers (which report an overflow as an
\* error); the one 32-bit result, the word of ToNRGBA_U32, is a bit vector.
Shl(x, n) == x * (2 ^ n)

\* x >> n on an unsigned value
Shr(x, n) == x \div (2 ^ n)

\* x | y, bit by bit
RECURSIVE BitOr(_, _)
BitOr(x, y) ==
    IF x = 0 THEN y
    ELSE IF y = 0 THEN x
    ELSE (IF x % 2 = 1 \/ y % 2 = 1 THEN 1 ELSE 0)
         + 2 * BitOr(x \div 2, y \div 2)

\* A uint32 as a vector of 32 bits, bit 0 the lowest.
Bit == 0 .. 31
RECURSIVE BitOf(_, _)
BitOf(x, i) == IF i = 0 THEN x % 2 ELSE BitOf(x \div 2, i - 1)
Word32(x) == [i \in Bit |-> BitOf(x, i)]

\* v << n on uint32: bits shifted past bit 31 are lost.
ShlWord(v, n) == [i \in Bit |-> IF i >= n THEN v[i - n] ELSE 0]

\* v | w on uint32
OrWord(v, w) == [i \in Bit |-> IF v[i] = 1 \/ w[i] = 1 THEN 1 ELSE 0]

\* The 16-bit number held in bits lo .. lo+15 of a word.
RECURSIVE Field(_, _, _)
Field(v, lo, n) ==
    IF n = 0 THEN 0 ELSE v[lo] + 2 * Field(v, lo + 1, n - 1)

----------------------------------------------------------------------------
(* Byte functions                                                          *)

\* Mutation: the scale factor is 0x100 instead of 0xff.
UnmultiplyAlphaBytes_Scale256(red, green, blue, alpha) ==
    IF alpha # 0 /\ alpha # 255
    THEN << ToByte((red * 256) \div alpha),
            ToByte((green * 256) \div alpha),
            ToByte((blue * 256) \div alpha),
            alpha >>
    ELSE << red, green, blue, alpha >>

\* Mutation: the colour channels are zeroed when alpha is zero, as the
\* standard colour model conversion does.
UnmultiplyAlphaBytes_ZeroAtAlpha0(red, green, blue, alpha) ==
    IF alpha = 0
    THEN << 0, 0, 0, 0 >>
    ELSE IF alpha # 255
    THEN << ToByte((red * 255) \div alpha),
            ToByte((green * 255) \div alpha),
            ToByte((blue * 255) \div alpha),
            alpha >>
    ELSE << red, green, blue, alpha >>

\* Mutation: the quotient is clamped to 0xff instead of truncated to a byte.
UnmultiplyAlphaBytes_Clamped(red, green, blue, alpha) ==
    LET clamp(x) == IF x > 255 THEN 255 ELSE x
    IN  IF alpha # 0 /\ alpha # 255
        THEN << clamp((red * 255) \div alpha),
                clamp((green * 255) \div alpha),
                clamp((blue * 255) \div alpha),
                alpha >>
        ELSE << red, green, blue, alpha >>

\* func UnmultiplyAlphaBytes(red, green, blue, alpha byte) (r, g, b, a byte)
UnmultiplyAlphaBytes(red, green, blue, alpha) ==
    IF alpha # 0 /\ alpha # 255
    THEN << ToByte((red * 255) \div alpha),
            ToByte((green * 255) \div alpha),
            ToByte((blue * 255) \div alpha),
            alpha >>
    ELSE << red, green, blue, alpha >>

\* color.NRGBA{R, G, B, A}.RGBA(): each colour channel is widened to 16
\* bits (c | c<<8), multiplied by alpha and divided by 0xff; alpha is
\* widened (a | a<<8).
NRGBA_RGBA(R, G, B, A) ==
    LET mul(c) == (BitOr(c, Shl(c, 8)) * A) \div 255
    IN  << mul(R), mul(G), mul(B), BitOr(A, Shl(A, 8)) >>

\* Mutation: the bytes are returned as they came, not multiplied.
MultiplyAlphaBytes_Straight(red, green, blue, alpha) ==
    << red, green, blue, alpha >>

\* func MultiplyAlphaBytes(red, green, blue, alpha byte) (r, g, b, a byte)
MultiplyAlphaBytes(red, green, blue, alpha) ==
    LET q == NRGBA_RGBA(red, green, blue, alpha)
    IN  << ToByte(Shr(q[1], 8)), ToByte(Shr(q[2], 8)),
           ToByte(Shr(q[3], 8)), ToByte(Shr(q[4], 8)) >>

\* Mutation: no special case for alpha 0 and 0xff, the formula is always
\* applied.
MultiplyAlphaBytesPreserveColors_NoSpecialCase(red, green, blue, alpha) ==
    LET mul(c) == ToByte(Shr((BitOr(c, Shl(c, 8)) * alpha) \div 255, 8))
    IN  << mul(red), mul(green), mul(blue),
           ToByte(Shr(BitOr(alpha, Shl(alpha, 8)), 8)) >>

\* Mutation: the 8-bit formula c * a / 0xff the source comment warns about.
MultiplyAlphaBytesPreserveColors_Naive(red, green, blue, alpha) ==
    LET mul(c) == ToByte((c * alpha) \div 255)
    IN  IF alpha # 0 /\ alpha # 255
        THEN << mul(red), mul(green), mul(blue), alpha >>
        ELSE << red, green, blue, alpha >>

\* Mutation: the division by 0xff is left out.
MultiplyAlphaBytesPreserveColors_NoDivide(red, green, blue, alpha) ==
    LET mul(c) == ToByte(Shr((BitOr(c, Shl(c, 8)) * alpha), 8))
    IN  IF alpha # 0 /\ alpha # 255
        THEN << mul(red), mul(green), mul(blue),
                ToByte(Shr(BitOr(alpha, Shl(alpha, 8)), 8)) >>
        ELSE << red, green, blue, alpha >>

\* func MultiplyAlphaBytesPreserveColors(red, green, blue, alpha byte)
MultiplyAlphaBytesPreserveColors(red, green, blue, alpha) ==
    LET mul(c) == ToByte(Shr((BitOr(c, Shl(c, 8)) * alpha) \div 255, 8))
    IN  IF alpha # 0 /\ alpha # 255
        THEN << mul(red), mul(green), mul(blue),
                ToByte(Shr(BitOr(alpha, Shl(alpha, 8)), 8)) >>
        ELSE << red, green, blue, alpha >>

----------------------------------------------------------------------------
(* Colours.  A colour value is a record: its kind (the concrete Go type),  *)
(* whether it is passed in pointer form, and its channels (8-bit kinds     *)
(* hold bytes, 16-bit kinds hold values in 0 .. 0xffff).  "Custom" is an   *)
(* implementation of color.Color the package does not know; its channels   *)
(* are what its RGBA() method returns.                                     *)

Color(kind, ptr, ch) == [kind |-> kind, ptr |-> ptr, ch |-> ch]

\* c.RGBA() of the colour kinds UnmultiplyAlpha is called with (RGBA, RGBA64
\* and unknown implementations from ToNRGBA's default case, and NRGBA, whose
\* RGBA() the source comments describe): four uint32 values in 0 .. 0xffff,
\* alpha-premultiplied.
RGBA(c) ==
    LET ch == c.ch
        w(x) == BitOr(x, Shl(x, 8))
    IN  CASE c.kind = "RGBA"    -> << w(ch[1]), w(ch[2]), w(ch[3]), w(ch[4]) >>
          [] c.kind = "RGBA64"  -> ch
          [] c.kind = "NRGBA"   -> NRGBA_RGBA(ch[1], ch[2], ch[3], ch[4])
          [] OTHER              -> ch

\* Outcome of a call: the values returned, or a run-time panic.
Ok(t) == [ret |-> t, panicked |-> FALSE]
Panic == [ret |-> <<>>, panicked |-> TRUE]

\* Mutation: the colour channels are zeroed when alpha is zero, as
\* color.NRGBAModel.Convert does.
UnmultiplyAlpha_ZeroAtAlpha0(c) ==
    LET q == RGBA(c)
        a == ToByte(Shr(q[4], 8))
        div(x) == ToByte(Shr((x * 255) \div a, 8))
    IN  IF q[4] = 0 THEN Ok(<< 0, 0, 0, 0 >>)
        ELSE IF q[4] # 65535
        THEN IF a = 0 THEN Panic
             ELSE Ok(<< div(q[1]), div(q[2]), div(q[3]), a >>)
        ELSE Ok(<< ToByte(Shr(q[1], 8)), ToByte(Shr(q[2], 8)),
                   ToByte(Shr(q[3], 8)), a >>)

\* func UnmultiplyAlpha(c color.Color) (r, g, b, a byte)
\* The divisor uint32(a) is the high byte of alpha; Go panics on an integer
\* division by zero.
UnmultiplyAlpha(c) ==
    LET q == RGBA(c)
        a == ToByte(Shr(q[4], 8))
        div(x) == ToByte(Shr((x * 255) \div a, 8))
    IN  IF q[4] # 0 /\ q[4] # 65535
        THEN IF a = 0 THEN Panic
             ELSE Ok(<< div(q[1]), div(q[2]), div(q[3]), a >>)
        ELSE Ok(<< ToByte(Shr(q[1], 8)), ToByte(Shr(q[2], 8)),
                   ToByte(Shr(q[3], 8)), a >>)

\* Mutation: the alpha-only kinds return black instead of white, and the
\* 16-bit luma is not shifted down.
ToNRGBA_BlackAlpha(c) ==
    LET ch == c.ch
        hi(x) == ToByte(Shr(x, 8))
    IN  CASE c.kind = "NRGBA"   -> Ok(<< ch[1], ch[2], ch[3], ch[4] >>)
          [] c.kind = "NRGBA64" -> Ok(<< hi(ch[1]), hi(ch[2]), hi(ch[3]), hi(ch[4]) >>)
          [] c.kind = "Gray"    -> Ok(<< ch[1], ch[1], ch[1], 255 >>)
          [] c.kind = "Gray16"  -> Ok(<< ToByte(ch[1]), ToByte(ch[1]), ToByte(ch[1]), 255 >>)
          [] c.kind = "Alpha"   -> Ok(<< 0, 0, 0, ch[1] >>)
          [] c.kind = "Alpha16" -> Ok(<< 0, 0, 0, hi(ch[1]) >>)
          [] OTHER              -> UnmultiplyAlpha(c)

\* func ToNRGBA(c color.Color) (r, g, b, a byte)
\* The type switch has one case for the value and one for the pointer form
\* of each kind, with the same body.
ToNRGBA(c) ==
    LET ch == c.ch
        hi(x) == ToByte(Shr(x, 8))
    IN  CASE c.kind = "NRGBA"   -> Ok(<< ch[1], ch[2], ch[3], ch[4] >>)
          [] c.kind = "NRGBA64" -> Ok(<< hi(ch[1]), hi(ch[2]), hi(ch[3]), hi(ch[4]) >>)
          [] c.kind = "Gray"    -> Ok(<< ch[1], ch[1], ch[1], 255 >>)
          [] c.kind = "Gray16"  -> Ok(<< hi(ch[1]), hi(ch[1]), hi(ch[1]), 255 >>)
          [] c.kind = "Alpha"   -> Ok(<< 255, 255, 255, ch[1] >>)
          [] c.kind = "Alpha16" -> Ok(<< 255, 255, 255, hi(ch[1]) >>)
          [] OTHER              -> UnmultiplyAlpha(c)

\* Mutation: green and blue are both shifted by 8, so their fields overlap.
ToNRGBA_U32_Overlap(c) ==
    LET p == ToNRGBA(c)
    IN  IF p.panicked THEN Panic
        ELSE Ok(<< OrWord(OrWord(ShlWord(Word32(p.ret[1]), 24),
                                 ShlWord(Word32(p.ret[2]), 8)),
                          OrWord(ShlWord(Word32(p.ret[3]), 8),
                                 Word32(p.ret[4]))) >>)

\* func ToNRGBA_U32(c color.Color) (u uint32)
ToNRGBA_U32(c) ==
    LET p == ToNRGBA(c)
    IN  IF p.panicked THEN Panic
        ELSE Ok(<< OrWord(OrWord(ShlWord(Word32(p.ret[1]), 24),
                                 ShlWord(Word32(p.ret[2]), 16)),
                          OrWord(ShlWord(Word32(p.ret[3]), 8),
                                 Word32(p.ret[4]))) >>)

----------------------------------------------------------------------------
(* Arguments the caller draws                                              *)

\* Byte quadruples.  The sweep takes every pair of a colour byte and an
\* alpha byte, with the same byte in the three colour channels (the
\* functions treat the channels alike); the grid takes four independent
\* bytes from a few values; the quadruples of color_test.go are added.
ByteSamples == {0, 1, 85, 128, 254, 255}

TestVectors ==
    { << 100, 100, 100, 100 >>, << 100, 100, 100, 255 >>,
      << 17, 51, 68, 85 >>, << 255, 255, 255, 100 >>,
      << 51, 153, 204, 85 >>, << 42, 87, 197, 0 >>,
      << 222, 173, 190, 239 >> }

\* 16-bit channel values: the ends of the range, values below 0x100 (high
\* byte zero) and values whose two bytes differ.
Words == {0, 128, 255, 256, 4660, 32896, 65534, 65535}

\* Pointer forms: the four bytes are not a colour value, and the unknown
\* implementation is passed as it is.
PtrForms(k) == IF k \in {"Bytes", "Custom"} THEN {FALSE} ELSE BOOLEAN

----------------------------------------------------------------------------
(* The caller                                                              *)

NoCall == [fn |-> "", ret |-> <<>>, panicked |-> FALSE]

Call(fn, outcome) ==
    [fn |-> fn, ret |-> outcome.ret, panicked |-> outcome.panicked]

\* The argument is four bytes (kind "Bytes") or a colour.  The sweep is
\* passed as bytes and, where it is a premultiplied pixel (colour <= alpha)
\* or has alpha 0, as an RGBA value, the kind UnmultiplyAlpha is for.
InitSweep ==
    \E r \in Byte, a \in Byte :
    \E k \in {"Bytes"} \cup (IF r <= a \/ a = 0 THEN {"RGBA"} ELSE {}) :
        inp = Color(k, FALSE, << r, r, r, a >>)

InitGrid ==
    \E ch \in (ByteSamples \X ByteSamples \X ByteSamples \X ByteSamples)
              \cup TestVectors :
    \E k \in {"Bytes", "NRGBA", "RGBA"} :
    \E p \in PtrForms(k) :
        inp = Color(k, p, ch)

InitPixel64 ==
    \E r \in Words, g \in {0, 4660, 65535}, b \in {255, 32896}, a \in Words :
    \E k \in {"NRGBA64", "RGBA64", "Custom"} :
    \E p \in PtrForms(k) :
        inp = Color(k, p, << r, g, b, a >>)

InitSingle ==
    \/ \E y \in Byte, k \in {"Gray", "Alpha"}, p \in BOOLEAN :
          inp = Color(k, p, << y >>)
    \/ \E y \in Words, k \in {"Gray16", "Alpha16"}, p \in BOOLEAN :
          inp = Color(k, p, << y >>)

Init ==
    /\ InitSweep \/ InitGrid \/ InitPixel64 \/ InitSingle
    /\ call1 = NoCall
    /\ call2 = NoCall
    /\ lines = <<>> /\ heap = <<>> /\ imgs = <<>> /\ log = <<>>
    /\ UtilIdle /\ HarnessIdle

\* The first call is made on the argument; a second call multiplies the
\* four bytes UnmultiplyAlphaBytes returned.
First == call1.fn = ""
Second == call1.fn = "UnmultiplyAlphaBytes" /\ call2.fn = ""

BytesAvailable == (First /\ inp.kind = "Bytes") \/ Second
Args == IF First THEN inp.ch ELSE call1.ret

Record(c) ==
    IF First THEN call1' = c /\ UNCHANGED << inp, call2, imageVars, utilVars, harnessVars >>
    ELSE call2' = c /\ UNCHANGED << inp, call1, imageVars, utilVars, harnessVars >>

CallUnmultiplyAlphaBytes ==
    /\ First
    /\ inp.kind = "Bytes"
    /\ Record(Call("UnmultiplyAlphaBytes",
                   Ok(UnmultiplyAlphaBytes(Args[1], Args[2], Args[3], Args[4]))))

CallMultiplyAlphaBytes ==
    /\ BytesAvailable
    /\ Record(Call("MultiplyAlphaBytes",
                   Ok(MultiplyAlphaBytes(Args[1], Args[2], Args[3], Args[4]))))

CallMultiplyAlphaBytesPreserveColors ==
    /\ BytesAvailable
    /\ Record(Call("MultiplyAlphaBytesPreserveColors",
                   Ok(MultiplyAlphaBytesPreserveColors(Args[1], Args[2], Args[3], Args[4]))))

CallUnmultiplyAlpha ==
    /\ First
    /\ inp.kind \in {"RGBA", "RGBA64", "Custom", "NRGBA"}
    /\ Record(Call("UnmultiplyAlpha", UnmultiplyAlpha(inp)))

CallToNRGBA ==
    /\ First
    /\ inp.kind # "Bytes"
    /\ Record(Call("ToNRGBA", ToNRGBA(inp)))

CallToNRGBA_U32 ==
    /\ First
    /\ inp.kind # "Bytes"
    /\ Record(Call("ToNRGBA_U32", ToNRGBA_U32(inp)))

Next ==
    \/ CallUnmultiplyAlphaBytes
    \/ CallMultiplyAlphaBytes
    \/ CallMultiplyAlphaBytesPreserveColors
    \/ CallUnmultiplyAlpha
    \/ CallToNRGBA
    \/ CallToNRGBA_U32

Spec == Init /\ [][Next]_vars

Quad == Byte \X Byte \X Byte \X Byte

TypeOK ==
    /\ inp.kind \in {"Bytes", "NRGBA", "RGBA"} => inp.ch \in Quad
    /\ inp.kind \in {"NRGBA64", "RGBA64", "Custom"} => inp.ch \in Words \X Words \X Words \X Words
    /\ inp.ptr \in PtrForms(inp.kind)
    /\ call1.panicked \in BOOLEAN
    /\ call2.panicked = FALSE
    /\ call1.fn \in {"", "ToNRGBA_U32"} \/ call1.panicked \/ call1.ret \in Quad
    /\ call2.fn = "" \/ call2.ret \in Quad

----------------------------------------------------------------------------
(* Properties                                                              *)

\* The calls of byte functions made so far: function, arguments, result.
ByteCalls ==
    (IF call1.fn \in {"UnmultiplyAlphaBytes", "MultiplyAlphaBytes",
                      "MultiplyAlphaBytesPreserveColors"}
     THEN { << call1.fn, inp.ch, call1.ret >> } ELSE {})
    \cup
    (IF call2.fn # "" THEN { << call2.fn, call1.ret, call2.ret >> } ELSE {})

AbsDiff(x, y) == IF x >= y THEN x - y ELSE y - x

\* C1: UnmultiplyAlphaBytes(r,g,b,a) with a = 0 or a = 255 returns exactly
\* (r,g,b,a); the colour channels are kept, not zeroed, when a = 0.
C1_UnmultiplyBytesIdentityAtBounds ==
    \A c \in ByteCalls :
        (c[1] = "UnmultiplyAlphaBytes" /\ c[2][4] \in {0, 255}) => c[3] = c[2]

C1_Witness ==
    /\ call1.fn = "UnmultiplyAlphaBytes"
    /\ inp.ch[4] = 0
    /\ inp.ch[1] = 200

\* C2: at alpha 0, MultiplyAlphaBytesPreserveColors returns (r,g,b,0) and
\* MultiplyAlphaBytes returns (0,0,0,0), so the results of the two differ
\* whenever a colour channel is not zero.
C2_MultiplyAtAlphaZero ==
    \A c \in ByteCalls :
        c[2][4] = 0 =>
            /\ c[1] = "MultiplyAlphaBytesPreserveColors" =>
                   /\ c[3] = c[2]
                   /\ (c[2] # << 0, 0, 0, 0 >> => c[3] # << 0, 0, 0, 0 >>)
            /\ c[1] = "MultiplyAlphaBytes" => c[3] = << 0, 0, 0, 0 >>

C2_Witness ==
    /\ call1.fn = "MultiplyAlphaBytesPreserveColors"
    /\ inp.ch = << 42, 87, 197, 0 >>

\* C3: for 0 < a < 255 and r,g,b <= a, MultiplyAlphaBytesPreserveColors of
\* the result of UnmultiplyAlphaBytes(r,g,b,a) has alpha exactly a and each
\* colour channel within 1 of the original.
C3_RoundTripWithinOne ==
    ( /\ call1.fn = "UnmultiplyAlphaBytes"
      /\ call2.fn = "MultiplyAlphaBytesPreserveColors"
      /\ 0 < inp.ch[4] /\ inp.ch[4] < 255
      /\ \A i \in 1 .. 3 : inp.ch[i] <= inp.ch[4] )
    => /\ call2.ret[4] = inp.ch[4]
       /\ \A i \in 1 .. 3 : AbsDiff(call2.ret[i], inp.ch[i]) <= 1

\* A round trip that does not reproduce the colour exactly.
C3_Witness ==
    /\ call1.fn = "UnmultiplyAlphaBytes"
    /\ call2.fn = "MultiplyAlphaBytesPreserveColors"
    /\ 0 < inp.ch[4] /\ inp.ch[4] < 255
    /\ \A i \in 1 .. 3 : inp.ch[i] <= inp.ch[4]
    /\ call2.ret[1] # inp.ch[1]

\* The colour-model arithmetic ((c | c<<8) * a / 255) >> 8, with c | c<<8
\* written as 257 * c.
ColorModelChannel(c, a) == ((257 * c * a) \div 255) \div 256

\* C4: for a in 1..255 MultiplyAlphaBytesPreserveColors and
\* MultiplyAlphaBytes return the same four bytes, those of the colour-model
\* path: ((c | c<<8) * a / 255) >> 8 per colour channel and alpha a.
C4_PreserveColorsMatchesColorModel ==
    \A c \in ByteCalls :
        ( /\ c[1] \in {"MultiplyAlphaBytesPreserveColors", "MultiplyAlphaBytes"}
          /\ c[2][4] >= 1 )
        => c[3] = << ColorModelChannel(c[2][1], c[2][4]),
                     ColorModelChannel(c[2][2], c[2][4]),
                     ColorModelChannel(c[2][3], c[2][4]),
                     c[2][4] >>

\* A call on which the naive 8-bit formula c * a / 255 gives another byte.
C4_Witness ==
    /\ call1.fn = "MultiplyAlphaBytesPreserveColors"
    /\ inp.ch[4] >= 1
    /\ call1.ret[1] # (inp.ch[1] * inp.ch[4]) \div 255

\* C5: for 0 < a < 255 UnmultiplyAlphaBytes returns alpha unchanged and each
\* colour channel floor(c*255/a) modulo 256, without clamping; (100,100,100,
\* 100) gives (255,255,255,100) and (17,51,68,85) gives (51,153,204,85).
C5_UnmultiplyBytesTruncates ==
    \A c \in ByteCalls :
        c[1] = "UnmultiplyAlphaBytes" =>
            /\ (0 < c[2][4] /\ c[2][4] < 255) =>
                   /\ c[3][4] = c[2][4]
                   /\ \A i \in 1 .. 3 :
                          c[3][i] = ((c[2][i] * 255) \div c[2][4]) % 256
            /\ c[2] = << 100, 100, 100, 100 >> => c[3] = << 255, 255, 255, 100 >>
            /\ c[2] = << 17, 51, 68, 85 >> => c[3] = << 51, 153, 204, 85 >>

\* A call whose quotient does not fit a byte and wraps around.
C5_Witness ==
    /\ call1.fn = "UnmultiplyAlphaBytes"
    /\ inp.ch[4] = 100
    /\ inp.ch[1] = 200
    /\ call1.ret[1] = 254

\* C6: UnmultiplyAlpha has no error case: for every 16-bit quadruple a
\* colour's RGBA() returns, the call completes and returns four bytes,
\* also when alpha is in 1 .. 0xfffe and the colour channels are divided.
C6_UnmultiplyAlphaNeverFails ==
    call1.fn = "UnmultiplyAlpha" =>
        /\ ~ call1.panicked
        /\ call1.ret \in Quad

\* C7, as stated: every colour channel of the result of
\* MultiplyAlphaBytesPreserveColors is <= the result's alpha, for every
\* argument.
C7_PreserveColorsKeepsInvariant ==
    \A c \in ByteCalls :
        c[1] = "MultiplyAlphaBytesPreserveColors" =>
            \A i \in 1 .. 3 : c[3][i] <= c[3][4]

\* C7, amended: for alpha in 1 .. 255 every colour channel of the result of
\* MultiplyAlphaBytesPreserveColors is <= the result's alpha, which is the
\* argument's alpha; for alpha 0 the result is the argument, whose colour
\* channels may exceed the alpha 0.
C7_PreserveColorsKeepsInvariantAboveZero ==
    \A c \in ByteCalls :
        c[1] = "MultiplyAlphaBytesPreserveColors" =>
            /\ c[2][4] >= 1 =>
                   /\ c[3][4] = c[2][4]
                   /\ \A i \in 1 .. 3 : c[3][i] <= c[3][4]
            /\ c[2][4] = 0 => c[3] = c[2]

\* A straight pixel whose colour exceeds its alpha, multiplied.
C7_Witness ==
    /\ call1.fn = "MultiplyAlphaBytesPreserveColors"
    /\ inp.ch[1] = 255
    /\ inp.ch[4] = 1
    /\ call1.ret[1] = 1

\* C8: ToNRGBA dispatches on the colour kind, value or pointer form alike:
\* NRGBA gives (R,G,B,A), also at A = 0; NRGBA64 gives each channel >> 8;
\* Alpha gives (0xff,0xff,0xff,A) and Alpha16 (0xff,0xff,0xff,A>>8); Gray
\* gives (Y,Y,Y,0xff) and Gray16 (Y>>8,Y>>8,Y>>8,0xff); every other kind
\* gives what UnmultiplyAlpha gives for the colour.
C8_ToNRGBADispatch ==
    call1.fn = "ToNRGBA" =>
        LET ch == inp.ch
            k == inp.kind
        IN  /\ k = "NRGBA" => ~ call1.panicked /\ call1.ret = ch
            /\ k = "NRGBA64" =>
                   /\ ~ call1.panicked
                   /\ call1.ret = << ch[1] \div 256, ch[2] \div 256,
                                     ch[3] \div 256, ch[4] \div 256 >>
            /\ k = "Alpha" =>
                   ~ call1.panicked /\ call1.ret = << 255, 255, 255, ch[1] >>
            /\ k = "Alpha16" =>
                   ~ call1.panicked /\ call1.ret = << 255, 255, 255, ch[1] \div 256 >>
            /\ k = "Gray" =>
                   ~ call1.panicked /\ call1.ret = << ch[1], ch[1], ch[1], 255 >>
            /\ k = "Gray16" =>
                   /\ ~ call1.panicked
                   /\ call1.ret = << ch[1] \div 256, ch[1] \div 256,
                                     ch[1] \div 256, 255 >>
            /\ k \in {"RGBA", "RGBA64", "Custom"} =>
                   call1 = Call("ToNRGBA", UnmultiplyAlpha(inp))

\* The alpha-only colour 0x80, in pointer form.
C8_Witness ==
    /\ call1.fn = "ToNRGBA"
    /\ inp = Color("Alpha", TRUE, << 128 >>)
    /\ call1.ret = << 255, 255, 255, 128 >>

\* C9: ToNRGBA keeps the colour channels at alpha zero: RGBA{r,g,b,0} and
\* NRGBA{r,g,b,0} give (r,g,b,0); RGBA{17,51,68,85} gives (51,153,204,85).
C9_ToNRGBAKeepsColorAtAlphaZero ==
    (call1.fn = "ToNRGBA" /\ inp.kind \in {"RGBA", "NRGBA"}) =>
        /\ inp.ch[4] = 0 => ~ call1.panicked /\ call1.ret = inp.ch
        /\ (inp.kind = "RGBA" /\ inp.ch = << 17, 51, 68, 85 >>) =>
               call1.ret = << 51, 153, 204, 85 >>

C9_Witness ==
    /\ call1.fn = "ToNRGBA"
    /\ inp.kind = "RGBA"
    /\ inp.ch = << 200, 200, 200, 0 >>

\* C10: ToNRGBA_U32(c) = R*2^24 + G*2^16 + B*2^8 + A for (R,G,B,A) =
\* ToNRGBA(c): the high half of the word is R*2^8 + G, the low half
\* B*2^8 + A, and each byte is read back from its own eight bits.
\* NRGBA{0xde,0xad,0xbe,0xef} gives 0xdeadbeef.
C10_U32PacksBytes ==
    (call1.fn = "ToNRGBA_U32" /\ ~ ToNRGBA(inp).panicked) =>
        LET u == call1.ret[1]
            q == ToNRGBA(inp).ret
        IN  /\ ~ call1.panicked
            /\ DOMAIN u = Bit
            /\ Field(u, 16, 16) = q[1] * 256 + q[2]
            /\ Field(u, 0, 16) = q[3] * 256 + q[4]
            /\ << Field(u, 24, 8), Field(u, 16, 8), Field(u, 8, 8), Field(u, 0, 8) >> = q
            /\ inp = Color("NRGBA", FALSE, << 222, 173, 190, 239 >>) =>
                   Field(u, 16, 16) = 57005 /\ Field(u, 0, 16) = 48879

C10_Witness ==
    /\ call1.fn = "ToNRGBA_U32"
    /\ inp = Color("NRGBA", FALSE, << 222, 173, 190, 239 >>)
    /\ ~ call1.panicked

----------------------------------------------------------------------------
(* image.go: byte buffers and CopyImageLines                               *)
(*                                                                         *)
(* A []byte is a sequence of bytes; the Go index i is position i + 1 of    *)
(* the sequence.  The buffers of this package come from make and from      *)
(* image.NewRGBA / image.NewNRGBA, so the capacity of a slice is its       *)
(* length, and a slice expression s[lo:hi] with hi beyond it is a run-time *)
(* panic (slice bounds out of range).                                      *)

Min(x, y) == IF x < y THEN x ELSE y

\* copy(dst[at : at+n], src): the built-in copies min(n, len(src)) bytes to
\* the front of the destination slice and leaves the rest of dst alone.
GoCopyAt(dst, at, n, src) ==
    [k \in 1 .. Len(dst) |->
        IF at < k /\ k <= at + n /\ k - at <= Len(src)
        THEN src[k - at] ELSE dst[k]]

\* copy(dst, src) on whole slices, as CopyImage uses it when the strides
\* are equal.
GoCopy(dst, src) == GoCopyAt(dst, 0, Len(dst), src)

\* s[lo:hi] as a value.
Slice(s, lo, hi) == SubSeq(s, lo + 1, hi)

\* lowerStride := Min(oStride, iStride)
LowerStride_Source(oStride, iStride) == iStride
LowerStride(oStride, iStride) == Min(oStride, iStride)

\* The loop condition of CopyImageLines: iIdx < len(iPix).
LoopRuns_WholeRowsAfter(iIdx, iPix, iStride) == iIdx + iStride < Len(iPix)
LoopRuns(iIdx, iPix, iStride) == iIdx < Len(iPix)

\* The outcome of CopyImageLines: the destination as the call left it,
\* whether the call panicked, and (for the properties) the number of rows
\* copied and the Go indices read from iPix and written in oPix.
LinesOutcome(pix, panicked, rows, reads, writes) ==
    [pix |-> pix, panicked |-> panicked, rows |-> rows,
     reads |-> reads, writes |-> writes]

\* The loop of CopyImageLines from the iteration that starts with oIdx and
\* iIdx.  The two slice expressions are evaluated before copy is called;
\* either of them panics when its upper bound is beyond the buffer.
RECURSIVE CopyImageLinesFrom(_, _, _, _, _, _)
CopyImageLinesFrom(acc, oStride, iPix, iStride, oIdx, iIdx) ==
    LET lowerStride == LowerStride(oStride, iStride) IN
    IF ~ LoopRuns(iIdx, iPix, iStride) THEN acc
    ELSE IF oIdx + lowerStride > Len(acc.pix) \/ iIdx + lowerStride > Len(iPix)
    THEN [acc EXCEPT !.panicked = TRUE]
    ELSE CopyImageLinesFrom(
             LinesOutcome(
                 GoCopyAt(acc.pix, oIdx, lowerStride,
                          Slice(iPix, iIdx, iIdx + lowerStride)),
                 FALSE, acc.rows + 1,
                 acc.reads \cup (iIdx .. iIdx + lowerStride - 1),
                 acc.writes \cup (oIdx .. oIdx + lowerStride - 1)),
             oStride, iPix, iStride, oIdx + oStride, iIdx + iStride)

CopyImageLines(oPix, oStride, iPix, iStride) ==
    CopyImageLinesFrom(LinesOutcome(oPix, FALSE, 0, {}, {}),
                       oStride, iPix, iStride, 0, 0)

----------------------------------------------------------------------------
(* The caller of CopyImageLines                                            *)

\* Buffer lengths 0 .. MaxLen and strides 1 .. MaxStride: every pair of
\* strides (equal, wider source, wider destination) with source lengths
\* that are and are not multiples of the source stride, and destinations
\* shorter and longer than the rows need.
MaxLen == 7
MaxStride == 4

\* Every byte of the source differs from every byte of the destination and
\* from its neighbours, so a byte copied to the wrong place shows.
SourceBytes(n) == [k \in 1 .. n |-> k]
DestinationBytes(n) == [k \in 1 .. n |-> 100 + k]

InitLines ==
    /\ \E iLen \in 0 .. MaxLen, oLen \in 0 .. MaxLen,
          iStride \in 1 .. MaxStride, oStride \in 1 .. MaxStride :
          lines = [oPix |-> DestinationBytes(oLen), oStride |-> oStride,
                   iPix |-> SourceBytes(iLen), iStride |-> iStride,
                   fn |-> "", out |-> LinesOutcome(<<>>, FALSE, 0, {}, {})]
    /\ inp = Color("Bytes", FALSE, << 0, 0, 0, 0 >>)
    /\ call1 = NoCall /\ call2 = NoCall
    /\ heap = <<>> /\ imgs = <<>> /\ log = <<>>
    /\ UtilIdle /\ HarnessIdle

CallCopyImageLines ==
    /\ lines.fn = ""
    /\ lines' = [lines EXCEPT
                   !.fn = "CopyImageLines",
                   !.out = CopyImageLines(lines.oPix, lines.oStride,
                                          lines.iPix, lines.iStride)]
    /\ UNCHANGED << colorVars, heap, imgs, log, utilVars, harnessVars >>

\* The built-in copy on the two whole buffers.
CallCopy ==
    /\ lines.fn = ""
    /\ lines' = [lines EXCEPT
                   !.fn = "copy",
                   !.out = LinesOutcome(GoCopy(lines.oPix, lines.iPix),
                                        FALSE, 0, {}, {})]
    /\ UNCHANGED << colorVars, heap, imgs, log, utilVars, harnessVars >>

NextLines ==
    \/ CallCopyImageLines
    \/ CallCopy

SpecLines == InitLines /\ [][NextLines]_vars

----------------------------------------------------------------------------
(* Properties of CopyImageLines                                            *)

\* The Go indices of the row windows [r*stride, r*stride + n) for the rows
\* 0 .. rows - 1.
RowWindows(rows, stride, n) ==
    UNION {(r * stride) .. (r * stride + n - 1) : r \in 0 .. rows - 1}

\* C11: when len(src) = rows*srcStride and len(dst) >= rows*dstStride,
\* CopyImageLines completes, copies for every row r < rows the
\* min(dstStride, srcStride) bytes at src[r*srcStride ...] to
\* dst[r*dstStride ...], and leaves every other byte of dst (row padding
\* and everything from rows*dstStride on) as it was.
C11_CopyImageLinesCopiesRows ==
    LET rows == Len(lines.iPix) \div lines.iStride
        n == Min(lines.oStride, lines.iStride)
    IN  (/\ lines.fn = "CopyImageLines"
         /\ Len(lines.iPix) = rows * lines.iStride
         /\ Len(lines.oPix) >= rows * lines.oStride) =>
            /\ ~ lines.out.panicked
            /\ Len(lines.out.pix) = Len(lines.oPix)
            /\ \A k \in 0 .. Len(lines.oPix) - 1 :
                  LET r == k \div lines.oStride
                      c == k % lines.oStride
                  IN  lines.out.pix[k + 1] =
                          IF r < rows /\ c < n
                          THEN lines.iPix[r * lines.iStride + c + 1]
                          ELSE lines.oPix[k + 1]

\* Two rows, a destination stride wider than the source stride and a
\* destination longer than the two rows: padding and tail both exist.
C11_Witness ==
    /\ lines.fn = "CopyImageLines"
    /\ lines.iStride = 2 /\ Len(lines.iPix) = 4
    /\ lines.oStride = 3 /\ Len(lines.oPix) = 7
    /\ lines.out.pix = << 1, 2, 103, 3, 4, 106, 107 >>

\* C12: for every source length and every pair of positive strides
\* CopyImageLines processes exactly floor(len(src)/srcStride) rows, reads
\* no source index >= len(src) and writes only inside the row windows of
\* the rows it processes.  (The destination has room for one row more than
\* that, so no failure is on its account.)
C12_CopyImageLinesWholeRowsOnly ==
    LET rows == Len(lines.iPix) \div lines.iStride
        n == Min(lines.oStride, lines.iStride)
    IN  (/\ lines.fn = "CopyImageLines"
         /\ Len(lines.oPix) >= (rows + 1) * lines.oStride) =>
            /\ ~ lines.out.panicked
            /\ lines.out.rows = rows
            /\ \A i \in lines.out.reads : i < Len(lines.iPix)
            /\ lines.out.writes \subseteq RowWindows(rows, lines.oStride, n)

\* C13: with equal strides and len(src) = len(dst) = h*stride, the single
\* copy(dst, src) leaves the destination exactly as CopyImageLines(dst,
\* stride, src, stride) leaves it.
C13_BulkCopyEqualsCopyImageLines ==
    (/\ lines.fn = "copy"
     /\ lines.oStride = lines.iStride
     /\ Len(lines.oPix) = Len(lines.iPix)
     /\ Len(lines.iPix) % lines.iStride = 0) =>
        LET byRows == CopyImageLines(lines.oPix, lines.oStride,
                                     lines.iPix, lines.iStride)
        IN  /\ ~ byRows.panicked
            /\ lines.out.pix = byRows.pix

\* Three rows of two bytes.
C13_Witness ==
    /\ lines.fn = "copy"
    /\ lines.oStride = 2 /\ lines.iStride = 2
    /\ Len(lines.oPix) = 6 /\ Len(lines.iPix) = 6
    /\ lines.out.pix = << 1, 2, 3, 4, 5, 6 >>

----------------------------------------------------------------------------
(* image.go: images                                                        *)
(*                                                                         *)
(* heap is the memory that holds pixel data: heap[b] is the byte sequence  *)
(* of buffer b (the Pix array of an *image.RGBA or *image.NRGBA, the       *)
(* texture of an *ebiten.Image, the store of an image of another type).    *)
(* An image is a record that names its buffer, so two images can share     *)
(* one.  Its rectangle is (x0, y0) - (x0 + w, y0 + h).  An *ebiten.Image   *)
(* holds premultiplied RGBA bytes without row padding and remembers the    *)
(* Unmanaged option it was created with.                                   *)

Image(kind, x0, y0, w, h, stride, pix, unmanaged) ==
    [kind |-> kind, x0 |-> x0, y0 |-> y0, w |-> w, h |-> h,
     stride |-> stride, pix |-> pix, unmanaged |-> unmanaged]

\* A nil *image.NRGBA held in an image.Image interface value.
NilNRGBA == Image("NRGBA", 0, 0, 0, 0, 0, 0, FALSE)
IsNil(img) == img.pix = 0

\* make([]byte, n)
MakeBytes(n) == [k \in 1 .. n |-> 0]

\* The outcome of a step that yields bytes or panics.
Bytes(pix) == [pix |-> pix, panicked |-> FALSE]
BytesPanic == [pix |-> <<>>, panicked |-> TRUE]

\* (*ebiten.Image).ReadPixels(pixels) fills pixels with the texture;
\* (*ebiten.Image).WritePixels(pix) replaces the texture.  Both panic
\* unless the slice holds exactly 4 * width * height bytes.
ReadPixels(h, eImg, pixels) ==
    IF Len(pixels) # 4 * eImg.w * eImg.h THEN BytesPanic
    ELSE Bytes(h[eImg.pix])

WritePixels(eImg, pix) ==
    IF Len(pix) # 4 * eImg.w * eImg.h THEN BytesPanic
    ELSE Bytes(pix)

\* The outcome of an operation of image.go: the memory it leaves, the image
\* it returns (ret, with its buffer in heap), the error it returns, and
\* whether it panicked.  A call that panics returns nothing.
NoImage == Image("", 0, 0, 0, 0, 0, 0, FALSE)
Outcome(h, ret, err) == [heap |-> h, ret |-> ret, err |-> err, panicked |-> FALSE]
Panicked(h) == [heap |-> h, ret |-> NoImage, err |-> FALSE, panicked |-> TRUE]

\* The image a constructor returns owns the bytes it was filled with: they
\* are a new buffer of the heap.  (image.NewRGBA, image.NewNRGBA and
\* ebiten.NewImageWithOptions allocate; the source's buffer is only read.)
Returned_SharesSource(h, src, kind, w, h2, pix, unmanaged) ==
    Outcome([h EXCEPT ![src.pix] = pix],
            Image(kind, 0, 0, w, h2, 4 * w, src.pix, unmanaged), FALSE)
Returned(h, src, kind, w, h2, pix, unmanaged) ==
    Outcome(Append(h, pix),
            Image(kind, 0, 0, w, h2, 4 * w, Len(h) + 1, unmanaged), FALSE)

----------------------------------------------------------------------------
(* Pixel access: At and Set of *image.RGBA, *image.NRGBA and *ebiten.Image *)

\* image.Point{x, y}.In(img.Bounds())
In(img, x, y) ==
    /\ img.x0 <= x /\ x < img.x0 + img.w
    /\ img.y0 <= y /\ y < img.y0 + img.h

\* PixOffset(x, y): the Go index of the first byte of the pixel.
PixOffset(img, x, y) == (y - img.y0) * img.stride + (x - img.x0) * 4

\* The four bytes at Go index i.
Pixel(buf, i) == << buf[i + 1], buf[i + 2], buf[i + 3], buf[i + 4] >>

\* img.At(x, y): a color.RGBA for premultiplied images (*image.RGBA and
\* *ebiten.Image), a color.NRGBA for straight ones; the zero colour outside
\* the rectangle.  An image of another type is a straight image here.
AtKind(img) == IF img.kind \in {"RGBA", "EImage"} THEN "RGBA" ELSE "NRGBA"

At(h, img, x, y) ==
    IF In(img, x, y)
    THEN Color(AtKind(img), FALSE, Pixel(h[img.pix], PixOffset(img, x, y)))
    ELSE Color(AtKind(img), FALSE, << 0, 0, 0, 0 >>)

\* The bytes byte(r >> 8), ... of c.RGBA(), which is what
\* (*ebiten.Image).Set stores and what color.RGBAModel converts a colour
\* that is not a color.RGBA to.
RGBABytes(c) == [i \in 1 .. 4 |-> ToByte(Shr(RGBA(c)[i], 8))]

\* color.RGBAModel.Convert(c)
RGBAModel(c) == IF c.kind = "RGBA" /\ ~ c.ptr THEN c.ch ELSE RGBABytes(c)

\* uint8(((x * 0xffff) / a) >> 8) for 16-bit x and a >= 1.  The product is
\* below 2^32 in Go; it is divided here in two steps (high and low byte of
\* x) so that no intermediate value leaves the checker's integers.
DivByAlpha(x, a) ==
    LET p1 == (x \div 256) * 65535
        t == ((p1 % a) * 256 + (x % 256) * 65535) \div a
    IN  ((p1 \div a) + (t \div 256)) % 256

\* color.NRGBAModel.Convert(c)
NRGBAModel_KeepsColorAtAlpha0(c) ==
    IF c.kind = "NRGBA" /\ ~ c.ptr THEN c.ch
    ELSE LET q == RGBA(c) IN
         IF q[4] = 65535 \/ q[4] = 0
         THEN << ToByte(Shr(q[1], 8)), ToByte(Shr(q[2], 8)),
                 ToByte(Shr(q[3], 8)), ToByte(Shr(q[4], 8)) >>
         ELSE << DivByAlpha(q[1], q[4]), DivByAlpha(q[2], q[4]),
                 DivByAlpha(q[3], q[4]), ToByte(Shr(q[4], 8)) >>
NRGBAModel(c) ==
    IF c.kind = "NRGBA" /\ ~ c.ptr THEN c.ch
    ELSE LET q == RGBA(c) IN
         IF q[4] = 65535 THEN << ToByte(Shr(q[1], 8)), ToByte(Shr(q[2], 8)),
                                 ToByte(Shr(q[3], 8)), 255 >>
         ELSE IF q[4] = 0 THEN << 0, 0, 0, 0 >>
         ELSE << DivByAlpha(q[1], q[4]), DivByAlpha(q[2], q[4]),
                 DivByAlpha(q[3], q[4]), ToByte(Shr(q[4], 8)) >>

\* The bytes Set stores for colour c in an image of the given kind.
Stored(kind, c) ==
    CASE kind = "RGBA" -> RGBAModel(c)
      [] kind = "NRGBA" -> NRGBAModel(c)
      [] OTHER -> RGBABytes(c)

\* buf with the four bytes q at Go index i.
WithPixel(buf, i, q) ==
    [k \in 1 .. Len(buf) |-> IF i < k /\ k <= i + 4 THEN q[k - i] ELSE buf[k]]

\* oImg.Set(x, y, c): nothing outside the rectangle.
Set(h, oImg, x, y, c) ==
    IF In(oImg, x, y)
    THEN [h EXCEPT ![oImg.pix] =
             WithPixel(@, PixOffset(oImg, x, y), Stored(oImg.kind, c))]
    ELSE h

----------------------------------------------------------------------------
(* The operations of image.go                                              *)

\* The loops of SlowImageCopy from pixel number n (row n \div width, column
\* n % width): xOImg.Set(x, y, iImg.At(x+left, y+top)).  The source pixel
\* is read from the memory the earlier iterations left.
RECURSIVE SlowImageCopyFrom(_, _, _, _)
SlowImageCopyFrom(h, oImg, iImg, n) ==
    IF n >= oImg.w * oImg.h THEN h
    ELSE LET x == n % oImg.w
             y == n \div oImg.w
         IN  SlowImageCopyFrom(
                 Set(h, oImg, x, y, At(h, iImg, x + iImg.x0, y + iImg.y0)),
                 oImg, iImg, n + 1)

\* SlowImageCopy(oImg, iImg).  iImg.Bounds() on a nil pointer is a nil
\* dereference.  A destination of an unknown type is not written and the
\* error is returned.
SlowImageCopy_NoError(h, oImg, iImg) ==
    IF IsNil(iImg) THEN Panicked(h)
    ELSE IF oImg.kind \in {"RGBA", "NRGBA", "EImage"}
    THEN Outcome(SlowImageCopyFrom(h, oImg, iImg, 0), NoImage, FALSE)
    ELSE Outcome(h, NoImage, FALSE)
SlowImageCopy(h, oImg, iImg) ==
    IF IsNil(iImg) THEN Panicked(h)
    ELSE IF oImg.kind \in {"RGBA", "NRGBA", "EImage"}
    THEN Outcome(SlowImageCopyFrom(h, oImg, iImg, 0), NoImage, FALSE)
    ELSE Outcome(h, NoImage, TRUE)

\* NewImageFromEImage(eImg): a new *image.RGBA; the texture is read into
\* pixelBytes and copied row by row into img.Pix.
NewImageFromEImage_Unmultiplied(h, eImg) ==
    LET width == eImg.w
        height == eImg.h
        read == ReadPixels(h, eImg, MakeBytes(4 * width * height))
        pix == [k \in 1 .. 4 * width * height |->
                   LET i == 4 * ((k - 1) \div 4) IN
                   UnmultiplyAlphaBytes(read.pix[i + 1], read.pix[i + 2],
                       read.pix[i + 3], read.pix[i + 4])[k - i]]
    IN  IF read.panicked THEN Panicked(h)
        ELSE Returned(h, eImg, "NRGBA", width, height, pix, FALSE)
NewImageFromEImage(h, eImg) ==
    LET width == eImg.w
        height == eImg.h
        read == ReadPixels(h, eImg, MakeBytes(4 * width * height))
        rows == IF read.panicked THEN LinesOutcome(<<>>, TRUE, 0, {}, {})
                ELSE CopyImageLines(MakeBytes(4 * width * height), 4 * width,
                                    read.pix, Shl(width, 2))
    IN  IF rows.panicked THEN Panicked(h)
        ELSE Returned(h, eImg, "RGBA", width, height, rows.pix, FALSE)

\* The *image.NRGBA branch of NewEImageFromImage.  One index, idx, is used
\* for iImg.Pix and for pixelBytes; it starts each row at y * iImg.Stride.
\* An index beyond either slice is a run-time panic.
PremultiplyRows_KeepColorAtAlpha0(iPix, stride, width, height) ==
    LET n == 4 * width * height
        idxOf(x, y) == y * stride + 4 * x
        col(i) == IF iPix[i + 4] = 0
                  THEN << iPix[i + 1] * 256, iPix[i + 2] * 256, iPix[i + 3] * 256, 0 >>
                  ELSE NRGBA_RGBA(iPix[i + 1], iPix[i + 2], iPix[i + 3], iPix[i + 4])
    IN  IF \E y \in 0 .. height - 1, x \in 0 .. width - 1 :
              idxOf(x, y) + 3 >= Len(iPix) \/ idxOf(x, y) + 3 >= n
        THEN BytesPanic
        ELSE Bytes([k \in 1 .. n |->
                 IF \E y \in 0 .. height - 1, x \in 0 .. width - 1 :
                       idxOf(x, y) < k /\ k <= idxOf(x, y) + 4
                 THEN LET i == CHOOSE i \in {idxOf(x, y) : x \in 0 .. width - 1,
                                                           y \in 0 .. height - 1} :
                                   i < k /\ k <= i + 4
                      IN  ToByte(Shr(col(i)[k - i], 8))
                 ELSE 0])
PremultiplyRows(iPix, stride, width, height) ==
    LET n == 4 * width * height
        idxOf(x, y) == y * stride + 4 * x
        col(i) == NRGBA_RGBA(iPix[i + 1], iPix[i + 2], iPix[i + 3], iPix[i + 4])
    IN  IF \E y \in 0 .. height - 1, x \in 0 .. width - 1 :
              idxOf(x, y) + 3 >= Len(iPix) \/ idxOf(x, y) + 3 >= n
        THEN BytesPanic
        ELSE Bytes([k \in 1 .. n |->
                 IF \E y \in 0 .. height - 1, x \in 0 .. width - 1 :
                       idxOf(x, y) < k /\ k <= idxOf(x, y) + 4
                 THEN LET i == CHOOSE i \in {idxOf(x, y) : x \in 0 .. width - 1,
                                                           y \in 0 .. height - 1} :
                                   i < k /\ k <= i + 4
                      IN  ToByte(Shr(col(i)[k - i], 8))
                 ELSE 0])

\* NewEImageFromImage(img, mipmaps)
NewEImageFromImage(h, img, mipmaps) ==
    LET width == img.w
        height == img.h
        ret == Image("EImage", 0, 0, width, height, 4 * width, Len(h) + 1, ~ mipmaps)
        uploaded(b) ==
            IF b.panicked THEN Panicked(h)
            ELSE IF WritePixels(ret, b.pix).panicked THEN Panicked(h)
            ELSE Returned(h, img, "EImage", width, height,
                          WritePixels(ret, b.pix).pix, ~ mipmaps)
    IN  CASE img.kind = "EImage" ->
               uploaded(ReadPixels(h, img, MakeBytes(4 * width * height)))
          [] img.kind = "RGBA" -> uploaded(Bytes(h[img.pix]))
          [] img.kind = "NRGBA" ->
               uploaded(PremultiplyRows(h[img.pix], img.stride, width, height))
          [] OTHER ->
               LET made == Returned(h, img, "EImage", width, height,
                                    MakeBytes(4 * width * height), ~ mipmaps)
                   copied == SlowImageCopy(made.heap, made.ret, img)
               IN  IF copied.panicked THEN Panicked(h)
                   ELSE Outcome(copied.heap, made.ret, FALSE)

\* The *image.RGBA and *image.NRGBA branches of CopyImage: one copy when
\* the strides are equal, CopyImageLines otherwise.
CopyPix_AlwaysBulk(oPix, oStride, iPix, iStride) == Bytes(GoCopy(oPix, iPix))
CopyPix(oPix, oStride, iPix, iStride) ==
    IF iStride = oStride THEN Bytes(GoCopy(oPix, iPix))
    ELSE LET rows == CopyImageLines(oPix, oStride, iPix, iStride)
         IN  IF rows.panicked THEN BytesPanic ELSE Bytes(rows.pix)

\* CopyImage(img, mipmaps).  In the last branch iImg is the variable of the
\* failed type assertion img.(*image.NRGBA), a nil pointer; the error of
\* SlowImageCopy is dropped.
CopyImage(h, img, mipmaps) ==
    LET width == img.w
        height == img.h
    IN  CASE img.kind = "EImage" ->
               LET read == ReadPixels(h, img, MakeBytes(4 * width * height))
                   cEImg == Image("EImage", 0, 0, width, height, 4 * width,
                                  Len(h) + 1, ~ mipmaps)
               IN  IF read.panicked \/ WritePixels(cEImg, read.pix).panicked
                   THEN Panicked(h)
                   ELSE Returned(h, img, "EImage", width, height,
                                 WritePixels(cEImg, read.pix).pix, ~ mipmaps)
          [] img.kind \in {"RGBA", "NRGBA"} ->
               LET oPix == CopyPix(MakeBytes(4 * width * height), 4 * width,
                                   h[img.pix], img.stride)
               IN  IF oPix.panicked THEN Panicked(h)
                   ELSE Returned(h, img, img.kind, width, height, oPix.pix, FALSE)
          [] OTHER ->
               LET made == Returned(h, img, "RGBA", width, height,
                                    MakeBytes(4 * width * height), FALSE)
                   copied == SlowImageCopy(made.heap, made.ret, NilNRGBA)
               IN  IF copied.panicked THEN Panicked(h)
                   ELSE Outcome(copied.heap, made.ret, FALSE)

----------------------------------------------------------------------------
(* The caller of the image operations                                      *)
(*                                                                         *)
(* imgs is the sequence of images the caller holds, heap their memory and  *)
(* log the calls made so far with their arguments (positions in imgs) and  *)
(* outcomes.  A panic ends the program.                                    *)

\* Images of 1 .. MaxWidth by 1 .. MaxHeight pixels and up to MaxOps calls:
\* one and several rows, one and several pixels per row, and a call on the
\* result of another call.
MaxWidth == 2
MaxHeight == 2
MaxOps == 2

\* Row padding in bytes: none (Stride = 4 * width), or one pixel more.
Pads == {0, 4}

\* The upper-left corner of the rectangle: the origin, and a rectangle
\* that starts elsewhere (a sub-image).
Corners == {<< 0, 0 >>, << 1, 2 >>}

\* The alpha of the test images: 0x7f everywhere (Alpha_7F), or a gradient
\* along the diagonal that starts at 0 and passes 0xff.
Alphas == {"7F", "DiagonalGradient"}

AlphaAt(x, y, alpha) ==
    IF alpha = "7F" THEN 127 ELSE << 0, 255, 127 >>[((x + y) % 3) + 1]

\* The test pattern: a colour that depends on the column and the row, so
\* that no two pixels of an image are equal.  Premultiplied images hold the
\* pattern multiplied by its alpha (keeping the colour at alpha 0).  Row
\* padding holds the byte 238.
StraightPixel(x, y, alpha) ==
    << 200 - 90 * x, 60 + 70 * y, 33 + 50 * (x + y), AlphaAt(x, y, alpha) >>

PatternPixel(kind, x, y, alpha) ==
    LET q == StraightPixel(x, y, alpha) IN
    IF kind \in {"RGBA", "EImage"}
    THEN MultiplyAlphaBytesPreserveColors(q[1], q[2], q[3], q[4])
    ELSE q

PatternBytes(kind, w, h, stride, alpha) ==
    [k \in 1 .. h * stride |->
        LET y == (k - 1) \div stride
            c == (k - 1) % stride
        IN  IF c < 4 * w THEN PatternPixel(kind, c \div 4, y, alpha)[(c % 4) + 1]
            ELSE 238]

InitImage ==
    /\ \E kind \in {"EImage", "RGBA", "NRGBA", "Other"},
          w \in 1 .. MaxWidth, h \in 1 .. MaxHeight,
          corner \in Corners, alpha \in Alphas :
       \E pad \in (IF kind = "EImage" THEN {0} ELSE Pads) :
          /\ imgs = << Image(kind, corner[1], corner[2], w, h, 4 * w + pad, 1,
                             FALSE) >>
          /\ heap = << PatternBytes(kind, w, h, 4 * w + pad, alpha) >>
    /\ log = <<>>
    /\ lines = <<>>
    /\ inp = Color("Bytes", FALSE, << 0, 0, 0, 0 >>)
    /\ call1 = NoCall /\ call2 = NoCall
    /\ UtilIdle /\ HarnessIdle

Running ==
    /\ Len(log) < MaxOps
    /\ IF Len(log) = 0 THEN TRUE ELSE ~ log[Len(log)].panicked

Entry(op, src, dst, mipmaps, ret, out) ==
    [op |-> op, src |-> src, dst |-> dst, mipmaps |-> mipmaps, ret |-> ret,
     err |-> out.err, panicked |-> out.panicked]

\* A constructor call on image i: the image returned joins imgs.
Constructed(op, i, mipmaps, out) ==
    /\ heap' = out.heap
    /\ imgs' = IF out.panicked THEN imgs ELSE Append(imgs, out.ret)
    /\ log' = Append(log, Entry(op, i, 0, mipmaps,
                                IF out.panicked THEN 0 ELSE Len(imgs) + 1, out))
    /\ UNCHANGED << colorVars, lines, utilVars, harnessVars >>

CallCopyImage ==
    /\ Running
    /\ \E i \in 1 .. Len(imgs), mipmaps \in BOOLEAN :
          Constructed("CopyImage", i, mipmaps, CopyImage(heap, imgs[i], mipmaps))

CallNewEImageFromImage ==
    /\ Running
    /\ \E i \in 1 .. Len(imgs), mipmaps \in BOOLEAN :
          Constructed("NewEImageFromImage", i, mipmaps,
                      NewEImageFromImage(heap, imgs[i], mipmaps))

CallNewImageFromEImage ==
    /\ Running
    /\ \E i \in 1 .. Len(imgs) :
          /\ imgs[i].kind = "EImage"
          /\ Constructed("NewImageFromEImage", i, FALSE,
                         NewImageFromEImage(heap, imgs[i]))

CallSlowImageCopy ==
    /\ Running
    /\ \E o \in 1 .. Len(imgs), i \in 1 .. Len(imgs) :
          LET out == SlowImageCopy(heap, imgs[o], imgs[i]) IN
          /\ o # i
          /\ heap' = out.heap
          /\ log' = Append(log, Entry("SlowImageCopy", i, o, FALSE, 0, out))
          /\ UNCHANGED << colorVars, lines, imgs, utilVars,
                          harnessVars >>

\* Before its first call the caller may allocate a blank destination with
\* the bounds of its image (image.NewRGBA(img.Bounds()) in the tests), of
\* any type.
CallerNewImage ==
    /\ Running
    /\ log = <<>>
    /\ \E i \in 1 .. Len(imgs), kind \in {"EImage", "RGBA", "NRGBA", "Other"} :
          LET img == imgs[i] IN
          /\ heap' = Append(heap, MakeBytes(4 * img.w * img.h))
          /\ imgs' = Append(imgs, Image(kind, img.x0, img.y0, img.w, img.h,
                                        4 * img.w, Len(heap) + 1, FALSE))
          /\ log' = Append(log, Entry("new", i, 0, FALSE, Len(imgs) + 1,
                                      Outcome(heap, NoImage, FALSE)))
          /\ UNCHANGED << colorVars, lines, utilVars, harnessVars >>

\* The caller overwrites the upper-left pixel of the image the last call
\* returned.
InkPixel == << 9, 8, 7, 6 >>

CallerWritesPixel ==
    /\ Running
    /\ log # <<>>
    /\ \E o \in 1 .. Len(imgs) :
          /\ o = log[Len(log)].ret
          /\ log[Len(log)].op # "new"
          /\ heap' = [heap EXCEPT ![imgs[o].pix] = WithPixel(@, 0, InkPixel)]
          /\ log' = Append(log, Entry("write", 0, o, FALSE, 0,
                                      Outcome(heap, NoImage, FALSE)))
          /\ UNCHANGED << colorVars, lines, imgs, utilVars,
                          harnessVars >>

NextImage ==
    \/ CallCopyImage
    \/ CallNewEImageFromImage
    \/ CallNewImageFromEImage
    \/ CallSlowImageCopy
    \/ CallerNewImage
    \/ CallerWritesPixel

SpecImage == InitImage /\ [][NextImage]_vars

----------------------------------------------------------------------------
(* Properties of the image operations                                      *)

\* The last call and the one before it.
Called == Len(log) > 0
Last == log[Len(log)]
Prev == log[Len(log) - 1]

\* The pixels of an image by column and row from its upper-left corner.
PixelsOf(h, img) ==
    [x \in 0 .. img.w - 1, y \in 0 .. img.h - 1 |->
        Pixel(h[img.pix], y * img.stride + 4 * x)]

KnownKinds == {"EImage", "RGBA", "NRGBA"}

\* C14: CopyImage on an *ebiten.Image, *image.RGBA or *image.NRGBA, with any
\* stride >= 4 * width and a buffer of height * stride bytes, returns an
\* image of the same kind and size whose pixels equal the source's.
C14_CopyImageCopiesKnownKinds ==
    IF Called
    THEN (Last.op = "CopyImage" /\ imgs[Last.src].kind \in KnownKinds) =>
            /\ ~ Last.panicked
            /\ LET src == imgs[Last.src]
                   ret == imgs[Last.ret]
               IN  /\ ret.kind = src.kind
                   /\ ret.w = src.w /\ ret.h = src.h
                   /\ Len(heap[ret.pix]) >= ret.h * ret.stride
                   /\ PixelsOf(heap, ret) = PixelsOf(heap, src)
    ELSE TRUE

\* A 2 x 2 *image.NRGBA with padded rows.
C14_Witness ==
    /\ Called
    /\ Last.op = "CopyImage" /\ ~ Last.panicked
    /\ imgs[Last.src].kind = "NRGBA"
    /\ imgs[Last.src].w = 2 /\ imgs[Last.src].h = 2
    /\ imgs[Last.src].stride = 12
    /\ imgs[Last.ret].stride = 8

\* C15: no call changes the memory of an image other than its destination
\* (only SlowImageCopy has one), the image CopyImage or NewImageFromEImage
\* returns has a buffer no other image has, and a write to one image
\* changes the pixels of no other.
C15_OnlyTheDestinationChanges ==
    [][LET e == log'[Len(log')]
           written == IF e.op \in {"SlowImageCopy", "write"}
                      THEN {imgs[e.dst].pix} ELSE {}
       IN  /\ \A b \in 1 .. Len(heap) : b \notin written => heap'[b] = heap[b]
           /\ \A j \in 1 .. Len(imgs) :
                 /\ imgs'[j] = imgs[j]
                 /\ j # e.dst => PixelsOf(heap', imgs[j]) = PixelsOf(heap, imgs[j])
           /\ (e.op \in {"CopyImage", "NewImageFromEImage"} /\ ~ e.panicked) =>
                 /\ imgs'[e.ret].pix > Len(heap)
                 /\ \A j \in 1 .. Len(imgs) : imgs[j].pix # imgs'[e.ret].pix
      ]_vars

\* A copy was made and its upper-left pixel overwritten; the source still
\* has its own.
C15_Witness ==
    /\ Len(log) = 2
    /\ log[1].op = "CopyImage" /\ ~ log[1].panicked
    /\ Last.op = "write" /\ Last.dst = log[1].ret
    /\ Pixel(heap[imgs[Last.dst].pix], 0) = InkPixel
    /\ Pixel(heap[imgs[log[1].src].pix], 0) # InkPixel

\* The pixels SlowImageCopy gives a new w x h *image.RGBA from image src.
SlowCopyPixels(h, src) ==
    [x \in 0 .. src.w - 1, y \in 0 .. src.h - 1 |->
        RGBAModel(At(h, src, x + src.x0, y + src.y0))]

\* C16: CopyImage on an image of another type completes and returns a new
\* CPU-buffer image of the same size, filled by SlowImageCopy from the
\* image that was passed in.
C16_CopyImageOfUnknownKind ==
    IF Called
    THEN (Last.op = "CopyImage" /\ imgs[Last.src].kind \notin KnownKinds) =>
            /\ ~ Last.panicked
            /\ LET src == imgs[Last.src]
                   ret == imgs[Last.ret]
               IN  /\ ret.kind \in {"RGBA", "NRGBA"}
                   /\ ret.w = src.w /\ ret.h = src.h
                   /\ PixelsOf(heap, ret) = SlowCopyPixels(heap, src)
    ELSE TRUE

\* C17: SlowImageCopy returns an error exactly when the destination is not
\* an *image.RGBA, *image.NRGBA or *ebiten.Image, and then no byte of the
\* destination (nor any other) is written; otherwise it returns nil.
C17_SlowImageCopyErrorIffUnknownDestination ==
    [][LET e == log'[Len(log')] IN
       e.op = "SlowImageCopy" =>
           /\ ~ e.panicked
           /\ e.err <=> imgs[e.dst].kind \notin KnownKinds
           /\ e.err => heap' = heap
      ]_vars

C17_Witness ==
    /\ Called
    /\ Last.op = "SlowImageCopy"
    /\ Last.err
    /\ imgs[Last.dst].kind = "Other"
    /\ imgs[Last.src].kind = "NRGBA"

\* The straight bytes of a pixel, premultiplied.
Premultiplied(q) == MultiplyAlphaBytes(q[1], q[2], q[3], q[4])

\* What NewEImageFromImage is to upload for a CPU-buffer source: the pixels
\* as they are (*image.RGBA) or premultiplied (*image.NRGBA).
UploadOf(h, src) ==
    [x \in 0 .. src.w - 1, y \in 0 .. src.h - 1 |->
        IF src.kind = "RGBA" THEN PixelsOf(h, src)[x, y]
        ELSE Premultiplied(PixelsOf(h, src)[x, y])]

\* C18: for every *image.RGBA or *image.NRGBA source, with any stride
\* >= 4 * width, NewEImageFromImage uploads a tightly packed buffer of
\* exactly 4 * width * height bytes whose pixel (x, y) is MultiplyAlphaBytes
\* of the source pixel for an NRGBA source and the source pixel for an RGBA
\* source.
C18_UploadIsTightlyPacked ==
    IF Called
    THEN (Last.op = "NewEImageFromImage"
          /\ imgs[Last.src].kind \in {"RGBA", "NRGBA"}) =>
            /\ ~ Last.panicked
            /\ LET src == imgs[Last.src]
                   ret == imgs[Last.ret]
               IN  /\ Len(heap[ret.pix]) = 4 * src.w * src.h
                   /\ ret.w = src.w /\ ret.h = src.h /\ ret.stride = 4 * src.w
                   /\ PixelsOf(heap, ret) = UploadOf(heap, src)
    ELSE TRUE

\* C19 as stated: NewImageFromEImage returns a w x h straight buffer whose
\* pixel (x, y) is UnmultiplyAlphaBytes of the four bytes read back.
C19_ReturnsUnmultipliedPixels ==
    IF Called
    THEN (Last.op = "NewImageFromEImage" /\ ~ Last.panicked) =>
            LET src == imgs[Last.src]
                ret == imgs[Last.ret]
            IN  /\ ret.kind = "NRGBA"
                /\ ret.w = src.w /\ ret.h = src.h
                /\ \A x \in 0 .. src.w - 1, y \in 0 .. src.h - 1 :
                      LET q == PixelsOf(heap, src)[x, y] IN
                      PixelsOf(heap, ret)[x, y] =
                          UnmultiplyAlphaBytes(q[1], q[2], q[3], q[4])
    ELSE TRUE

\* C19, amended: NewImageFromEImage returns a w x h *image.RGBA (a
\* premultiplied buffer, Stride = 4 * width, rectangle at the origin) whose
\* pixel (x, y) is the four bytes read back, unchanged.
C19_ReturnsReadBackPixels ==
    IF Called
    THEN Last.op = "NewImageFromEImage" =>
            /\ ~ Last.panicked
            /\ LET src == imgs[Last.src]
                   ret == imgs[Last.ret]
               IN  /\ ret.kind = "RGBA"
                   /\ ret.w = src.w /\ ret.h = src.h
                   /\ ret.x0 = 0 /\ ret.y0 = 0 /\ ret.stride = 4 * src.w
                   /\ Len(heap[ret.pix]) = 4 * src.w * src.h
                   /\ PixelsOf(heap, ret) = PixelsOf(heap, src)
    ELSE TRUE

\* A texture with alpha 0x7f, where unmultiplying would change the bytes.
C19_Witness ==
    /\ Called
    /\ Last.op = "NewImageFromEImage" /\ ~ Last.panicked
    /\ imgs[Last.src].w = 2 /\ imgs[Last.src].h = 2
    /\ Pixel(heap[imgs[Last.ret].pix], 0)[4] = 127
    /\ Pixel(heap[imgs[Last.ret].pix], 0)[1] # 200

\* C20: for a tightly packed *image.RGBA or *image.NRGBA img,
\* NewImageFromEImage(NewEImageFromImage(img, mipmaps)) has img's size and
\* is img's premultiplied form: the same bytes for an RGBA, MultiplyAlphaBytes
\* of each pixel for an NRGBA, whatever mipmaps is.
C20_RoundTripGivesPremultipliedForm ==
    IF Len(log) >= 2
    THEN (/\ Last.op = "NewImageFromEImage"
          /\ Prev.op = "NewEImageFromImage"
          /\ ~ Prev.panicked
          /\ Last.src = Prev.ret
          /\ imgs[Prev.src].kind \in {"RGBA", "NRGBA"}
          /\ imgs[Prev.src].stride = 4 * imgs[Prev.src].w) =>
            /\ ~ Last.panicked
            /\ LET img == imgs[Prev.src]
                   ret == imgs[Last.ret]
               IN  /\ ret.w = img.w /\ ret.h = img.h
                   /\ PixelsOf(heap, ret) = UploadOf(heap, img)
    ELSE TRUE

\* An *image.NRGBA with a pixel of alpha 0 and a pixel of alpha 0xff,
\* uploaded with mipmaps.
C20_Witness ==
    /\ Len(log) >= 2
    /\ Last.op = "NewImageFromEImage" /\ ~ Last.panicked
    /\ Prev.op = "NewEImageFromImage" /\ Prev.mipmaps
    /\ Last.src = Prev.ret
    /\ imgs[Prev.src].kind = "NRGBA" /\ imgs[Prev.src].w = 2
    /\ Pixel(heap[imgs[Prev.src].pix], 0) = << 200, 60, 33, 0 >>
    /\ Pixel(heap[imgs[Last.ret].pix], 0) = << 0, 0, 0, 0 >>

\* C21: after SlowImageCopy(dst, src) with a destination of a known kind,
\* for every offset (x, y) inside the destination's size the destination
\* pixel at (dst.Min.X + x, dst.Min.Y + y) holds the colour src returns at
\* (src.Min.X + x, src.Min.Y + y) as the destination's Set stores it (for
\* an *image.RGBA destination the same bytes from an RGBA source and
\* MultiplyAlphaBytes of the bytes from an NRGBA source), whatever the
\* origins of the two rectangles.
C21_SlowImageCopyCopiesByOffset ==
    IF Called
    THEN (Last.op = "SlowImageCopy" /\ imgs[Last.dst].kind \in KnownKinds) =>
            /\ ~ Last.panicked
            /\ LET dst == imgs[Last.dst]
                   src == imgs[Last.src]
               IN  \A x \in 0 .. dst.w - 1, y \in 0 .. dst.h - 1 :
                      LET c == At(heap, src, src.x0 + x, src.y0 + y)
                          q == Pixel(heap[dst.pix],
                                     PixOffset(dst, dst.x0 + x, dst.y0 + y))
                      IN  /\ q = Stored(dst.kind, c)
                          /\ (dst.kind = "RGBA" /\ c.kind = "RGBA") => q = c.ch
                          /\ (dst.kind = "RGBA" /\ c.kind = "NRGBA") =>
                                 q = Premultiplied(c.ch)
    ELSE TRUE

\* A colour with alpha 0 and a colour channel that is not 0.
ColorAtZeroAlpha(c) == c.ch[4] = 0 /\ c.ch # << 0, 0, 0, 0 >>

\* The coordinates SlowImageCopy sets in dst: columns 0 .. width - 1 and
\* rows 0 .. height - 1, where they are inside dst's rectangle.
SetPoints(dst) ==
    {p \in (0 .. dst.w - 1) \X (0 .. dst.h - 1) : In(dst, p[1], p[2])}

----------------------------------------------------------------------------
(* Further properties of the colour functions                              *)

\* The 8-bit formula floor(c * a / 255).
NaiveChannel(c, a) == (c * a) \div 255

\* C28: ((c | c<<8) * a / 255) >> 8, the formula of
\* MultiplyAlphaBytesPreserveColors, is not floor(c * a / 255): some pair
\* (c, a) with c in 0 .. 255 and a in 1 .. 254 gives different bytes.  One
\* such pair is c = 4, a = 191: the function returns 3, the naive formula 2.
C28_FormulaIsNotTheNaiveOne ==
    \A c \in ByteCalls :
        (c[1] = "MultiplyAlphaBytesPreserveColors" /\ c[2] = << 4, 4, 4, 191 >>)
        => /\ c[3] = << 3, 3, 3, 191 >>
           /\ NaiveChannel(4, 191) = 2
           /\ c[3][1] # NaiveChannel(c[2][1], c[2][4])

C28_Witness ==
    /\ call1.fn = "MultiplyAlphaBytesPreserveColors"
    /\ inp.ch = << 4, 4, 4, 191 >>
    /\ call1.ret[1] = NaiveChannel(4, 191) + 1

\* C29: for every 8-bit premultiplied (r, g, b, a) with r, g, b <= a,
\* UnmultiplyAlpha of the colour RGBA{r, g, b, a} returns the four bytes
\* UnmultiplyAlphaBytes(r, g, b, a) returns.
C29_UnmultiplyPathsAgree ==
    (/\ call1.fn = "UnmultiplyAlpha"
     /\ inp.kind = "RGBA"
     /\ \A i \in 1 .. 3 : inp.ch[i] <= inp.ch[4]) =>
        /\ ~ call1.panicked
        /\ call1.ret = UnmultiplyAlphaBytes(inp.ch[1], inp.ch[2], inp.ch[3],
                                            inp.ch[4])

\* C30: for every four bytes MultiplyAlphaBytes returns the alpha it was
\* given and colour channels <= that alpha, and the intermediate
\* (c | c<<8) * a stays below 2^32 (it is at most 65535 * 255 = 16711425).
C30_MultiplyKeepsInvariant ==
    \A c \in ByteCalls :
        c[1] = "MultiplyAlphaBytes" =>
            /\ c[3][4] = c[2][4]
            /\ \A i \in 1 .. 3 :
                  /\ c[3][i] <= c[3][4]
                  /\ BitOr(c[2][i], Shl(c[2][i], 8)) * c[2][4] <= 65535 * 255

\* A straight pixel whose colour exceeds its alpha.
C30_Witness ==
    /\ call1.fn = "MultiplyAlphaBytes"
    /\ inp.ch = << 255, 255, 255, 1 >>
    /\ call1.ret = << 1, 1, 1, 1 >>

(***************************************************************************)
(* util.go: Split and Join.  A string is the sequence of its runes; a rune *)
(* is written as a one-rune string, and "U+00E9" stands for a rune of two  *)
(* bytes in UTF-8 (len(s) counts bytes, the loops count runes).            *)
(***************************************************************************)
Runes == {"a", "n", ",", "\\", "\n", "U+00E9"}

RuneLen(r) == IF r = "U+00E9" THEN 2 ELSE 1

RECURSIVE ByteLen(_)
ByteLen(s) == IF s = <<>> THEN 0 ELSE RuneLen(Head(s)) + ByteLen(Tail(s))

\* strings.Count(s, string(sep)) for a separator of one rune.
Count(s, sep) == Cardinality({i \in 1 .. Len(s) : s[i] = sep})

\* rs[lo:hi] is legal when 0 <= lo <= hi <= len(rs).
SliceOk(rs, lo, hi) == 0 <= lo /\ lo <= hi /\ hi <= Len(rs)

\* The locals of Split in front of rune i.  out[amt] is always the next
\* free element, so out is kept as the sequence of the amt elements written.
SplitLocals(start, bs, cur, lastWasSep, out, panicked) ==
    [start |-> start, bs |-> bs, curString |-> cur, lastWasSep |-> lastWasSep,
     out |-> out, panicked |-> panicked]

\* out[amt] = x; amt++ on out = make([]string, size).
SetOut(st, size, x) ==
    IF Len(st.out) >= size THEN [st EXCEPT !.panicked = TRUE]
    ELSE [st EXCEPT !.out = Append(st.out, x)]

\* One iteration of the loop of Split, on rune rs[i] (i counts from 0).
SplitStep(st, rs, sep, size, i) ==
    LET r == rs[i + 1]
        s0 == [st EXCEPT !.lastWasSep = FALSE]
    IN  IF st.panicked THEN st
        ELSE IF r = "n" /\ st.bs THEN
            IF ~ SliceOk(rs, st.start, i - 1) THEN [s0 EXCEPT !.panicked = TRUE]
            ELSE [s0 EXCEPT
                    !.curString = st.curString \o Slice(rs, st.start, i - 1)
                                               \o << "\n" >>,
                    !.start = i + 1,
                    !.bs = FALSE]
        ELSE IF r = sep THEN
            IF st.bs THEN
                IF ~ SliceOk(rs, st.start, i - 1)
                THEN [s0 EXCEPT !.panicked = TRUE]
                ELSE [s0 EXCEPT
                        !.curString = st.curString \o Slice(rs, st.start, i - 1),
                        !.start = i,
                        !.bs = FALSE]
            ELSE IF ~ SliceOk(rs, st.start, i) THEN [s0 EXCEPT !.panicked = TRUE]
            ELSE LET piece == IF Len(st.curString) > 0
                              THEN st.curString \o Slice(rs, st.start, i)
                              ELSE Slice(rs, st.start, i)
                     s1 == SetOut(s0, size, piece)
                 IN  [s1 EXCEPT !.curString = << >>,
                                !.lastWasSep = TRUE,
                                !.start = i + 1]
        ELSE IF r = "\\" THEN [s0 EXCEPT !.bs = TRUE]
        ELSE [s0 EXCEPT !.bs = FALSE]

RECURSIVE SplitLoop(_, _, _, _, _)
SplitLoop(st, rs, sep, size, i) ==
    IF i >= Len(rs) THEN st
    ELSE SplitLoop(SplitStep(st, rs, sep, size, i), rs, sep, size, i + 1)

\* The statements of Split after the loop.
SplitEnd(st, rs, size) ==
    IF st.panicked THEN st
    ELSE IF st.start >= ByteLen(rs) THEN
        LET s1 == IF Len(st.curString) > 0
                  THEN [SetOut(st, size, st.curString) EXCEPT !.curString = << >>]
                  ELSE st
        IN  IF s1.panicked THEN s1
            ELSE IF s1.lastWasSep THEN SetOut(s1, size, << >>) ELSE s1
    ELSE IF ~ SliceOk(rs, st.start, Len(rs)) THEN [st EXCEPT !.panicked = TRUE]
    ELSE IF Len(st.curString) > 0
         THEN [SetOut(st, size, st.curString \o Slice(rs, st.start, Len(rs)))
                 EXCEPT !.curString = << >>]
         ELSE SetOut(st, size, Slice(rs, st.start, Len(rs)))

SplitResult(out, panicked) == [out |-> out, panicked |-> panicked]

Split(s, sep) ==
    LET size == Count(s, sep) + 1
        st == SplitEnd(SplitLoop(SplitLocals(0, FALSE, << >>, FALSE, << >>, FALSE),
                                 s, sep, size, 0),
                       s, size)
    IN  SplitResult(IF st.panicked THEN << >> ELSE st.out, st.panicked)

\* The inner loop of Join on the runes of one element x, from rune ir on:
\* sb is the builder, start the first rune not yet written.
RECURSIVE JoinRunes(_, _, _, _, _)
JoinRunes(sb, rx, sep, start, ir) ==
    IF ir >= Len(rx) THEN
        IF start < ByteLen(rx) THEN sb \o Slice(rx, start, Len(rx)) ELSE sb
    ELSE LET r == rx[ir + 1]
             written == IF ir > start THEN sb \o Slice(rx, start, ir) ELSE sb
         IN  IF r = "\n"
             THEN JoinRunes(written \o << "\\", "n" >>, rx, sep, ir + 1, ir + 1)
             ELSE IF r = sep
             THEN JoinRunes(written \o << "\\", r >>, rx, sep, ir + 1, ir + 1)
             ELSE JoinRunes(sb, rx, sep, start, ir + 1)

RECURSIVE JoinFrom(_, _, _, _)
JoinFrom(sb, xs, sep, ix) ==
    IF ix >= Len(xs) THEN sb
    ELSE JoinFrom(JoinRunes(IF ix > 0 THEN Append(sb, sep) ELSE sb,
                            xs[ix + 1], sep, 0, 0),
                  xs, sep, ix + 1)

Join(xs, sep) == JoinFrom(<< >>, xs, sep, 0)

(***************************************************************************)
(* The caller of util.go joins a non-empty slice of strings and splits the *)
(* joined string again with the same separator.                            *)
(***************************************************************************)
MaxRunes == 2
MaxElems == 2

Strings == UNION {[1 .. n -> Runes] : n \in 0 .. MaxRunes}
Slices == UNION {[1 .. n -> Strings] : n \in 1 .. MaxElems}

InitUtil ==
    /\ \E xs \in Slices, sep \in Runes :
          str = [xs |-> xs, sep |-> sep, fn |-> "", joined |-> << >>,
                 out |-> SplitResult(<< >>, FALSE)]
    /\ inp = Color("Bytes", FALSE, << 0, 0, 0, 0 >>)
    /\ call1 = NoCall /\ call2 = NoCall
    /\ lines = <<>> /\ heap = <<>> /\ imgs = <<>> /\ log = <<>>
    /\ HarnessIdle

CallJoin ==
    /\ str.fn = ""
    /\ str' = [str EXCEPT !.fn = "Join", !.joined = Join(str.xs, str.sep)]
    /\ UNCHANGED << colorVars, imageVars, harnessVars >>

CallSplit ==
    /\ str.fn = "Join"
    /\ str' = [str EXCEPT !.fn = "Split", !.out = Split(str.joined, str.sep)]
    /\ UNCHANGED << colorVars, imageVars, harnessVars >>

NextUtil ==
    \/ CallJoin
    \/ CallSplit

SpecUtil == InitUtil /\ [][NextUtil]_vars

\* C22: for every non-empty slice xs (elements may be empty and may contain
\* the separator, newlines, backslashes and the letter n) and every
\* separator, Split(Join(xs, sep), sep) returns a slice equal to xs.
C22_SplitInvertsJoin ==
    str.fn = "Split" => (~ str.out.panicked /\ str.out.out = str.xs)

(***************************************************************************)
(* test.go: the harness that runs queued test functions inside the game    *)
(* callbacks.  Three kinds of test, each with its channel of capacity 1    *)
(* (updateTests, drawTests, layoutTests) and its unbuffered completion     *)
(* channel (awaitUpdateTestCompletion, ...).  The goroutines are: the one  *)
(* OnTestMain starts (f), the game thread on which Ebitengine calls        *)
(* Update, Draw and Layout, and the test goroutines m.Run starts, which    *)
(* call Queue*Test.                                                        *)
(***************************************************************************)
Kinds == {"Update", "Draw", "Layout"}

TestChannelCap == 1

MaxCallers == 2
MaxCalls == 2

Callers == 1 .. MaxCallers
TestIds == Callers \X (1 .. MaxCalls)

\* make(chan *UpdateTest, 1): its queue, whether it was closed, and whether
\* the package variable still holds it (isNil after updateTests = nil).
TestChan(buf, closed, isNil) == [buf |-> buf, closed |-> closed, isNil |-> isNil]

\* &UpdateTest{t, f} of the n-th call of caller c.
Test(c, n, k) == [caller |-> c, n |-> n, kind |-> k]
NoTest == Test(0, 0, "")

\* A test goroutine: the kinds of test its test function queues, one after
\* another, where it is in Queue*Test, the kind it is queueing, the value
\* of testsQueued it read, the calls it has returned from, and for each of
\* them the test whose completion signal it received.
Caller(program, pc, kind, tmp, calls, woken) ==
    [program |-> program, pc |-> pc, kind |-> kind, tmp |-> tmp,
     calls |-> calls, woken |-> woken]

\* A test function queues MaxCalls tests in the order of the README's
\* Test_SomeTests (Layout, Update, Draw), starting anywhere in it.
QueueOrder == << "Layout", "Update", "Draw" >>
Program(first) == [i \in 1 .. MaxCalls |-> QueueOrder[((first + i - 2) % 3) + 1]]
Programs == {Program(first) : first \in 1 .. 3}

GameThread(pc, callback, test) == [pc |-> pc, callback |-> callback, test |-> test]

InitHarness ==
    /\ \E called \in BOOLEAN :
          /\ mainRoutine = IF called THEN "start" ELSE "absent"
          /\ gameThread = GameThread(IF called THEN "idle" ELSE "absent", "", NoTest)
    /\ hasTestMain = FALSE
    /\ testsQueued = 0
    /\ testChans = [k \in Kinds |-> TestChan(<< >>, FALSE, FALSE)]
    /\ \E programs \in [Callers -> Programs] :
          callers = [c \in Callers |-> Caller(programs[c], "idle", "", 0, 0, << >>)]
    /\ ran = [id \in TestIds |-> << >>]
    /\ inp = Color("Bytes", FALSE, << 0, 0, 0, 0 >>)
    /\ call1 = NoCall /\ call2 = NoCall
    /\ lines = <<>> /\ heap = <<>> /\ imgs = <<>> /\ log = <<>>
    /\ UtilIdle

idleVars == << colorVars, imageVars, utilVars >>

\* m.Run is running the tests: with OnTestMain from the moment it has set
\* hasTestMain, without it (the default TestMain) from the start.
TestsRunning == mainRoutine \in {"run", "absent"}

\* OnTestMain, f: hasTestMain = true, then m.Run().
SetHasTestMain ==
    /\ mainRoutine = "start"
    /\ hasTestMain' = TRUE
    /\ mainRoutine' = "run"
    /\ UNCHANGED << testsQueued, testChans, gameThread, callers, ran, idleVars >>

\* m.Run returns when every test goroutine has finished.
RunReturns ==
    /\ mainRoutine = "run"
    /\ \A c \in Callers : callers[c].pc \in {"done", "fatal"}
    /\ mainRoutine' = "close"
    /\ UNCHANGED << hasTestMain, testsQueued, testChans, gameThread, callers,
                    ran, idleVars >>

\* close(updateTests); close(drawTests); close(layoutTests)
CloseChannels ==
    /\ mainRoutine = "close"
    /\ testChans' = [k \in Kinds |-> [testChans[k] EXCEPT !.closed = TRUE]]
    /\ mainRoutine' = "nilDraw"
    /\ UNCHANGED << hasTestMain, testsQueued, gameThread, callers, ran, idleVars >>

\* drawTests = nil; layoutTests = nil; updateTests = nil, one at a time:
\* the game thread reads the variables without synchronisation.
NextAfterNil(pc) ==
    IF pc = "nilDraw" THEN "nilLayout"
    ELSE IF pc = "nilLayout" THEN "nilUpdate" ELSE "wait"

NilledKind(pc) ==
    IF pc = "nilDraw" THEN "Draw"
    ELSE IF pc = "nilLayout" THEN "Layout" ELSE "Update"

SetNil ==
    /\ mainRoutine \in {"nilDraw", "nilLayout", "nilUpdate"}
    /\ testChans' = [testChans EXCEPT ![NilledKind(mainRoutine)].isNil = TRUE]
    /\ mainRoutine' = NextAfterNil(mainRoutine)
    /\ UNCHANGED << hasTestMain, testsQueued, gameThread, callers, ran, idleVars >>

\* for testsQueued > 0 { time.Sleep(...) }
WaitForTests ==
    /\ mainRoutine = "wait"
    /\ testsQueued <= 0
    /\ mainRoutine' = "done"
    /\ UNCHANGED << hasTestMain, testsQueued, testChans, gameThread, callers,
                    ran, idleVars >>

\* Queue*Test, entry: if hasTestMain { testsQueued++ (the read) ... } else
\* { t.Fatal(...) }.
CallQueueTest(c) ==
    /\ TestsRunning
    /\ callers[c].pc = "idle"
    /\ callers[c].calls < Len(callers[c].program)
    /\ LET k == callers[c].program[callers[c].calls + 1]
       IN  callers' = [callers EXCEPT ![c] =
                         IF hasTestMain
                         THEN [@ EXCEPT !.pc = "incWrite", !.kind = k,
                                        !.tmp = testsQueued]
                         ELSE [@ EXCEPT !.pc = "fatal", !.kind = k]]
    /\ UNCHANGED << hasTestMain, testsQueued, testChans, mainRoutine,
                    gameThread, ran, idleVars >>

\* testsQueued++ (the write).
IncrementWrite(c) ==
    /\ callers[c].pc = "incWrite"
    /\ testsQueued' = callers[c].tmp + 1
    /\ callers' = [callers EXCEPT ![c].pc = "send"]
    /\ UNCHANGED << hasTestMain, testChans, mainRoutine, gameThread, ran,
                    idleVars >>

\* updateTests <- &UpdateTest{t, f}: blocks while the channel is full (and
\* for ever on a nil channel); panics on a closed channel.
SendTest(c) ==
    LET k == callers[c].kind
        ch == testChans[k]
    IN  /\ callers[c].pc = "send"
        /\ ~ ch.isNil
        /\ ch.closed \/ Len(ch.buf) < TestChannelCap
        /\ IF ch.closed
           THEN /\ callers' = [callers EXCEPT ![c].pc = "panic"]
                /\ UNCHANGED testChans
           ELSE /\ testChans' = [testChans EXCEPT ![k].buf =
                                    Append(@, Test(c, callers[c].calls + 1, k))]
                /\ callers' = [callers EXCEPT ![c].pc = "await"]
        /\ UNCHANGED << hasTestMain, testsQueued, mainRoutine, gameThread, ran,
                        idleVars >>

\* testsQueued-- (the read).
DecrementRead(c) ==
    /\ callers[c].pc = "decRead"
    /\ callers' = [callers EXCEPT ![c].pc = "decWrite", ![c].tmp = testsQueued]
    /\ UNCHANGED << hasTestMain, testsQueued, testChans, mainRoutine,
                    gameThread, ran, idleVars >>

\* testsQueued-- (the write), and Queue*Test returns.
DecrementWrite(c) ==
    /\ callers[c].pc = "decWrite"
    /\ testsQueued' = callers[c].tmp - 1
    /\ callers' = [callers EXCEPT ![c].pc = "idle", ![c].calls = @ + 1]
    /\ UNCHANGED << hasTestMain, testChans, mainRoutine, gameThread, ran,
                    idleVars >>

\* The test function of the goroutine returns.
TestFunctionReturns(c) ==
    /\ TestsRunning
    /\ callers[c].pc = "idle"
    /\ callers[c].calls = Len(callers[c].program)
    /\ callers' = [callers EXCEPT ![c].pc = "done"]
    /\ UNCHANGED << hasTestMain, testsQueued, testChans, mainRoutine,
                    gameThread, ran, idleVars >>

\* Ebitengine calls Update, Draw or Layout: if updateTests != nil { ... }
\* else { err = errors.New("Done") } (Draw and Layout have no else).
EnterCallback(k) ==
    /\ gameThread.pc = "idle"
    /\ gameThread' =
          IF ~ testChans[k].isNil THEN GameThread("len", k, NoTest)
          ELSE IF k = "Update" THEN GameThread("shutdown", k, NoTest)
          ELSE gameThread
    /\ UNCHANGED << hasTestMain, testsQueued, testChans, mainRoutine, callers,
                    ran, idleVars >>

\* len(updateTests) > 0; len of a nil channel is 0.
Queued_MoreThanOne(ch) == (IF ch.isNil THEN 0 ELSE Len(ch.buf)) > 1

Queued(ch) == (IF ch.isNil THEN 0 ELSE Len(ch.buf)) > 0

CheckQueued ==
    /\ gameThread.pc = "len"
    /\ gameThread' = IF Queued(testChans[gameThread.callback])
                     THEN [gameThread EXCEPT !.pc = "recv"]
                     ELSE GameThread("idle", "", NoTest)
    /\ UNCHANGED << hasTestMain, testsQueued, testChans, mainRoutine, callers,
                    ran, idleVars >>

\* What test := <-updateTests leaves in the channel.
Received_Peek(buf) == buf

Received(buf) == Tail(buf)

\* test := <-updateTests: blocks on an empty or nil channel; a closed,
\* empty channel yields nil, and test.f then panics.
ReceiveTest ==
    LET k == gameThread.callback
        ch == testChans[k]
    IN  /\ gameThread.pc = "recv"
        /\ ~ ch.isNil
        /\ ch.closed \/ Len(ch.buf) > 0
        /\ IF Len(ch.buf) > 0
           THEN /\ gameThread' = GameThread("run", k, Head(ch.buf))
                /\ testChans' = [testChans EXCEPT ![k].buf = Received(@)]
           ELSE /\ gameThread' = GameThread("panic", k, NoTest)
                /\ UNCHANGED testChans
        /\ UNCHANGED << hasTestMain, testsQueued, mainRoutine, callers, ran,
                        idleVars >>

\* test.f(test.t) runs to its end on the game thread, inside the callback.
RunTest ==
    /\ gameThread.pc = "run"
    /\ ran' = [ran EXCEPT ![<< gameThread.test.caller, gameThread.test.n >>] =
                 Append(@, [callback |-> gameThread.callback,
                            kind |-> gameThread.test.kind])]
    /\ gameThread' = [gameThread EXCEPT !.pc = "signal"]
    /\ UNCHANGED << hasTestMain, testsQueued, testChans, mainRoutine, callers,
                    idleVars >>

\* awaitUpdateTestCompletion <- true meets <-awaitUpdateTestCompletion of a
\* caller waiting on the channel of that kind; the callback then returns.
SignalCompletion(c) ==
    /\ gameThread.pc = "signal"
    /\ callers[c].pc = "await"
    /\ callers[c].kind = gameThread.callback
    /\ callers' = [callers EXCEPT ![c].pc = "decRead",
                                  ![c].woken = Append(@, gameThread.test)]
    /\ gameThread' = GameThread("idle", "", NoTest)
    /\ UNCHANGED << hasTestMain, testsQueued, testChans, mainRoutine, ran,
                    idleVars >>

MainRoutineStep ==
    \/ SetHasTestMain
    \/ RunReturns
    \/ CloseChannels
    \/ SetNil
    \/ WaitForTests

CallerStep(c) ==
    \/ IncrementWrite(c)
    \/ SendTest(c)
    \/ DecrementRead(c)
    \/ DecrementWrite(c)

GameStep ==
    \/ CheckQueued
    \/ ReceiveTest
    \/ RunTest
    \/ \E c \in Callers : SignalCompletion(c)

NextHarness ==
    \/ MainRoutineStep
    \/ \E c \in Callers : CallQueueTest(c)
    \/ \E c \in Callers : CallerStep(c)
    \/ \E c \in Callers : TestFunctionReturns(c)
    \/ \E k \in Kinds : EnterCallback(k)
    \/ GameStep

SpecHarness == InitHarness /\ [][NextHarness]_vars

\* Ebitengine keeps calling each of the three callbacks, the game thread and
\* every goroutine that can take a step is scheduled, and m.Run returns.
FairHarness ==
    /\ \A k \in Kinds : SF_vars(EnterCallback(k))
    /\ WF_vars(GameStep)
    /\ \A c \in Callers : WF_vars(CallerStep(c))
    /\ WF_vars(MainRoutineStep)

SpecHarnessFair == SpecHarness /\ FairHarness

(***************************************************************************)
(* Properties of the test harness.                                         *)
(***************************************************************************)
InCall(c) == callers[c].pc \in {"incWrite", "send", "await", "decRead", "decWrite"}

\* The calls caller c has got its completion signal for.
Signalled(c) == 1 .. Len(callers[c].woken)

\* The tests that were sent into a channel.
QueuedTests ==
    {id \in TestIds :
        \/ id[2] <= callers[id[1]].calls
        \/ id[2] = callers[id[1]].calls + 1
           /\ callers[id[1]].pc \in {"await", "decRead", "decWrite"}}

RunHasReturned == mainRoutine \in {"close", "nilDraw", "nilLayout", "nilUpdate",
                                   "wait", "done"}

\* C23: with any number of goroutines calling Queue*Test concurrently, a
\* call goes on to return only after the callback has run that call's own
\* f: the completion signal it receives is the one of its own test.
C23_ReturnsAfterOwnTest ==
    \A c \in Callers : \A n \in Signalled(c) :
        /\ callers[c].woken[n].caller = c
        /\ callers[c].woken[n].n = n
        /\ ran[<< c, n >>] # << >>

\* C24: every queued test function is executed exactly once (never twice,
\* and once m.Run has returned every one of them has run), by the game
\* thread inside the callback of its own kind, one at a time: the test the
\* game thread is running has not run before.
C24_EachTestRunsOnceInItsCallback ==
    /\ \A id \in TestIds :
          /\ Len(ran[id]) <= 1
          /\ id \notin QueuedTests => ran[id] = << >>
          /\ \A i \in 1 .. Len(ran[id]) : ran[id][i].callback = ran[id][i].kind
    /\ gameThread.pc = "run"
       => /\ ran[<< gameThread.test.caller, gameThread.test.n >>] = << >>
          /\ gameThread.test.kind = gameThread.callback
          /\ << gameThread.test.caller, gameThread.test.n >> \in QueuedTests
    /\ RunHasReturned => \A id \in QueuedTests : Len(ran[id]) = 1

C24_Witness ==
    /\ mainRoutine = "done"
    /\ QueuedTests = TestIds
    /\ \A id \in TestIds : Len(ran[id]) = 1
    /\ ran[<< 1, 1 >>][1].callback = "Draw"
    /\ ran[<< 2, 1 >>][1].callback = "Draw"
    /\ callers[1].woken[1].caller = 2

\* C25: provided OnTestMain was called and Ebitengine keeps calling Update,
\* Draw and Layout, every call of Queue*Test eventually returns.
C25_EveryQueueCallReturns ==
    \A c \in Callers : InCall(c) ~> (callers[c].pc = "idle")

C25_Witness ==
    /\ \A c \in Callers : callers[c].pc = "done" /\ callers[c].calls = MaxCalls
    /\ callers[1].woken[1].kind = callers[2].woken[1].kind
    /\ callers[1].woken[2].kind # callers[1].woken[1].kind

\* C26: Update returns a non-nil error only after m.Run has returned and
\* testsQueued = 0; before that every Update call returns nil.
C26_ErrorOnlyAfterRunAndNoTestsQueued ==
    gameThread.pc = "shutdown" => (RunHasReturned /\ testsQueued = 0)

=============================================================================
